---------------------------- MODULE Spec2Model ----------------------------
(***************************************************************************)
(* A model of the almagest library (Keplerian ellipse geometry, the       *)
(* quantity algebra and the tether physics functions).                    *)
(*                                                                         *)
(* Every quantity of the library wraps a Real, which is f64                *)
(* (utils.rs:62).  The model keeps that width: a value is an IEEE-754      *)
(* binary64 datum (NaN, an infinity, or sign * man * 2^exp with a 53-bit   *)
(* significand), and +, -, *, / and sqrt round to nearest, ties to even,   *)
(* with overflow to an infinity and gradual underflow.  Significands are   *)
(* natural numbers held as little-endian sequences of 15-bit limbs, since  *)
(* the products of two 53-bit significands do not fit a machine integer.   *)
(***************************************************************************)
EXTENDS Integers, Sequences, FiniteSets

(***************************************************************************)
(* Natural numbers of any size: <<>> is 0, the last limb is never 0.      *)
(***************************************************************************)
LimbBits == 15

Base == 2^LimbBits

Max(a, b) == IF a >= b THEN a ELSE b

Min(a, b) == IF a <= b THEN a ELSE b

Pow2(n) == 2^n

RECURSIVE BNorm(_)
BNorm(a) ==
    IF a = <<>> THEN <<>>
    ELSE IF a[Len(a)] # 0 THEN a
    ELSE BNorm(SubSeq(a, 1, Len(a) - 1))

Limb(a, i) == IF i <= Len(a) THEN a[i] ELSE 0

BFromInt(n) ==
    IF n = 0 THEN <<>>
    ELSE IF n < Base THEN <<n>>
    ELSE IF n < Base * Base THEN <<n % Base, n \div Base>>
    ELSE <<n % Base, (n \div Base) % Base, n \div (Base * Base)>>

RECURSIVE BAddR(_, _, _, _, _)
BAddR(a, b, i, carry, acc) ==
    IF i > Len(a) /\ i > Len(b)
    THEN IF carry > 0 THEN Append(acc, carry) ELSE acc
    ELSE LET s == Limb(a, i) + Limb(b, i) + carry
         IN  BAddR(a, b, i + 1, s \div Base, Append(acc, s % Base))

BAdd(a, b) == BAddR(a, b, 1, 0, <<>>)

\* a - b for a >= b
RECURSIVE BSubR(_, _, _, _, _)
BSubR(a, b, i, borrow, acc) ==
    IF i > Len(a) THEN BNorm(acc)
    ELSE LET s == a[i] - Limb(b, i) - borrow
         IN  IF s < 0
             THEN BSubR(a, b, i + 1, 1, Append(acc, s + Base))
             ELSE BSubR(a, b, i + 1, 0, Append(acc, s))

BSub(a, b) == BSubR(a, b, 1, 0, <<>>)

RECURSIVE BCmpR(_, _, _)
BCmpR(a, b, i) ==
    IF i = 0 THEN 0
    ELSE IF a[i] > b[i] THEN 1
    ELSE IF a[i] < b[i] THEN -1
    ELSE BCmpR(a, b, i - 1)

\* -1, 0 or 1 as a < b, a = b or a > b
BCmp(a, b) ==
    IF Len(a) > Len(b) THEN 1
    ELSE IF Len(a) < Len(b) THEN -1
    ELSE BCmpR(a, b, Len(a))

RECURSIVE BMulSmallR(_, _, _, _, _)
BMulSmallR(a, k, i, carry, acc) ==
    IF i > Len(a)
    THEN IF carry > 0 THEN Append(acc, carry) ELSE acc
    ELSE LET s == a[i] * k + carry
         IN  BMulSmallR(a, k, i + 1, s \div Base, Append(acc, s % Base))

\* a * k for 0 <= k < Base
BMulSmall(a, k) == IF k = 0 \/ a = <<>> THEN <<>> ELSE BMulSmallR(a, k, 1, 0, <<>>)

Zeros(n) == [i \in 1..n |-> 0]

\* acc + p * Base^n
BAddShifted(acc, p, n) == IF p = <<>> THEN acc ELSE BAdd(acc, Zeros(n) \o p)

\* (the sum so far is looked at in every step, so that it is computed step by
\* step and not as one nested expression at the end)
RECURSIVE BMulR(_, _, _, _)
BMulR(a, b, i, acc) ==
    IF i > Len(a) THEN acc
    ELSE IF acc = <<>>
    THEN BMulR(a, b, i + 1, BAddShifted(<<>>, BMulSmall(b, a[i]), i - 1))
    ELSE BMulR(a, b, i + 1, BAddShifted(acc, BMulSmall(b, a[i]), i - 1))

BMul(a, b) == BMulR(a, b, 1, <<>>)

\* a * 2^n
BShl(a, n) ==
    IF a = <<>> THEN <<>>
    ELSE Zeros(n \div LimbBits) \o BMulSmall(a, Pow2(n % LimbBits))

\* floor(a / 2^n)
BShr(a, n) ==
    LET q == n \div LimbBits
        r == n % LimbBits
        m == Len(a) - q
    IN  IF m <= 0 THEN <<>>
        ELSE BNorm([i \in 1..m |->
                 (a[i + q] \div Pow2(r))
               + (Limb(a, i + q + 1) % Pow2(r)) * Pow2(LimbBits - r)])

RECURSIVE SmallBitLen(_)
SmallBitLen(x) == IF x = 0 THEN 0 ELSE 1 + SmallBitLen(x \div 2)

BBitLen(a) ==
    IF a = <<>> THEN 0 ELSE LimbBits * (Len(a) - 1) + SmallBitLen(a[Len(a)])

\* bit i of a, bit 0 the lowest
BBit(a, i) == (Limb(a, i \div LimbBits + 1) \div Pow2(i % LimbBits)) % 2

\* whether a mod 2^n is not 0
BLowNonzero(a, n) ==
    \/ \E i \in 1..Min(Len(a), n \div LimbBits) : a[i] # 0
    \/ Limb(a, n \div LimbBits + 1) % Pow2(n % LimbBits) # 0

\* One step of the long division: <<floor(r / b), r mod b>> for r < b * Base,
\* b's top limb >= Base/2.  q starts at most 2 above the quotient, p = q * b.
RECURSIVE QFix(_, _, _, _)
QFix(r, b, q, p) ==
    IF BCmp(p, r) > 0 THEN QFix(r, b, q - 1, BSub(p, b)) ELSE <<q, BSub(r, p)>>

QHat(r, b, n) == Min(Base - 1, (Limb(r, n + 1) * Base + Limb(r, n)) \div b[n])

QTry(r, b, qhat) == QFix(r, b, qhat, BMulSmall(b, qhat))

QDigit(r, b) == QTry(r, b, QHat(r, b, Len(b)))

RECURSIVE BDivModR(_, _, _, _, _)
RECURSIVE BDivNext(_, _, _, _, _)
BDivModR(a, b, i, q, r) ==
    IF i = 0 THEN <<BNorm(q), r>>
    ELSE BDivNext(a, b, i, q, QDigit(BNorm(<<a[i]>> \o r), b))

\* (the remainder is looked at in every step, for the same reason as in BMulR)
BDivNext(a, b, i, q, d) ==
    IF d[2] = <<>> THEN BDivModR(a, b, i - 1, <<d[1]>> \o q, <<>>)
    ELSE BDivModR(a, b, i - 1, <<d[1]>> \o q, d[2])

BDivModL(a, b) == BDivModR(a, b, Len(a), <<>>, <<>>)

BDivUnshift(qr, sh) == <<qr[1], BShr(qr[2], sh)>>

BDivModSh(a, b, sh) == BDivUnshift(BDivModL(BShl(a, sh), BShl(b, sh)), sh)

\* <<floor(a / b), a mod b>> for b # 0
BDivMod(a, b) == BDivModSh(a, b, LimbBits - SmallBitLen(b[Len(b)]))

\* floor(sqrt(v)) for a machine integer v
RECURSIVE SmallSqrtR(_, _)
SmallSqrtR(v, x) ==
    LET y == (x + v \div x) \div 2
    IN  IF y >= x THEN x ELSE SmallSqrtR(v, y)

SmallSqrt(v) == IF v = 0 THEN 0 ELSE SmallSqrtR(v, Base)

BToInt(a) == Limb(a, 1) + Limb(a, 2) * Base

\* floor(sqrt(a)), by Newton's iteration from a start above the root that is
\* right in its leading limb
RECURSIVE BSqrtR(_, _)
RECURSIVE BSqrtNext(_, _, _)
BSqrtR(a, x) == BSqrtNext(a, x, BShr(BAdd(x, BDivMod(a, x)[1]), 1))

BSqrtNext(a, x, y) == IF BCmp(y, x) >= 0 THEN x ELSE BSqrtR(a, y)

\* the even number of low bits left out of the start, for a of n bits
BSqrtShift(n) ==
    IF n <= 2 * LimbBits THEN 0 ELSE n - 2 * LimbBits + ((n - 2 * LimbBits) % 2)

BSqrtFrom(a, sh) ==
    BSqrtR(a, BShl(BFromInt(SmallSqrt(BToInt(BShr(a, sh))) + 1), sh \div 2))

BSqrt(a) == IF a = <<>> THEN <<>> ELSE BSqrtFrom(a, BSqrtShift(BBitLen(a)))

BSquare(a) == BMul(a, a)

RECURSIVE BPow10(_)
BPow10(k) ==
    IF k = 0 THEN <<1>>
    ELSE IF k % 2 = 0 THEN BSquare(BPow10(k \div 2))
    ELSE BMulSmall(BSquare(BPow10(k \div 2)), 10)


(***************************************************************************)
(* Real = f64 (utils.rs:62): IEEE-754 binary64.                           *)
(* A finite value is (-1)^sgn * man * 2^exp, kept canonical: a normal      *)
(* number has a significand of exactly MantBits bits, a subnormal one (and *)
(* zero) has exp = MinExp.                                                 *)
(***************************************************************************)
MantBits == 53

MinExp == -1074

MaxExp == 971

NaN == [cls |-> "nan", sgn |-> 0, man |-> <<>>, exp |-> 0]

Inf(s) == [cls |-> "inf", sgn |-> s, man |-> <<>>, exp |-> 0]

Fin(s, m, e) == [cls |-> "fin", sgn |-> s, man |-> m, exp |-> e]

Zero(s) == Fin(s, <<>>, MinExp)

IsNaN(x) == x.cls = "nan"

IsInf(x) == x.cls = "inf"

IsFinite(x) == x.cls = "fin"

IsZero(x) == x.cls = "fin" /\ x.man = <<>>

Xor(s, t) == (s + t) % 2

\* (-1)^s * (m * 2^e + a nonzero rest below one unit of m, when sticky), rounded
\* to nearest, ties to even.  With sticky set, m has MantBits + 2 bits or more.
\* the significand q at exponent e, one bit shorter when rounding carried out
F64Pack(s, q, e) ==
    IF BBitLen(q) > MantBits
    THEN (IF e + 1 > MaxExp THEN Inf(s) ELSE Fin(s, BShr(q, 1), e + 1))
    ELSE (IF e > MaxExp THEN Inf(s) ELSE Fin(s, q, e))

\* whether dropping the low d bits of m (leaving q) rounds away from zero
RoundsUp(m, d, sticky, q) ==
    /\ d > 0
    /\ BBit(m, d - 1) = 1
    /\ (sticky \/ BLowNonzero(m, d - 1) \/ BBit(q, 0) = 1)

RoundShifted(s, m, d, sticky, q, e) ==
    F64Pack(s, IF RoundsUp(m, d, sticky, q) THEN BAdd(q, <<1>>) ELSE q, e)

\* m * 2^e rounded to a significand at exponent e1
RoundAt(s, m, e, sticky, e1) ==
    RoundShifted(s, m, e1 - e, sticky,
                 IF e1 <= e THEN BShl(m, e - e1) ELSE BShr(m, e1 - e), e1)

F64Round(s, m, e, sticky) ==
    IF m = <<>> THEN Zero(s)
    ELSE RoundAt(s, m, e, sticky, Max(e + BBitLen(m) - MantBits, MinExp))

F64FromInt(n) == IF n < 0 THEN F64Round(1, BFromInt(-n), 0, FALSE)
                          ELSE F64Round(0, BFromInt(n), 0, FALSE)

\* -1, 0, 1 for two values that are not NaN; -0 and +0 compare equal
MagCmp(a, b) ==
    IF a.exp > b.exp THEN 1
    ELSE IF a.exp < b.exp THEN -1
    ELSE BCmp(a.man, b.man)

\* the same for the absolute values of two values that may be infinite
AbsCmp(a, b) ==
    IF IsInf(a) THEN (IF IsInf(b) THEN 0 ELSE 1)
    ELSE IF IsInf(b) THEN -1
    ELSE MagCmp(a, b)

F64Cmp(a, b) ==
    IF IsZero(a) /\ IsZero(b) THEN 0
    ELSE IF a.sgn # b.sgn THEN (IF a.sgn = 0 THEN 1 ELSE -1)
    ELSE (IF a.sgn = 0 THEN 1 ELSE -1) * AbsCmp(a, b)

F64Lt(a, b) == ~IsNaN(a) /\ ~IsNaN(b) /\ F64Cmp(a, b) < 0

F64Le(a, b) == ~IsNaN(a) /\ ~IsNaN(b) /\ F64Cmp(a, b) <= 0

F64Gt(a, b) == ~IsNaN(a) /\ ~IsNaN(b) /\ F64Cmp(a, b) > 0

F64Ge(a, b) == ~IsNaN(a) /\ ~IsNaN(b) /\ F64Cmp(a, b) >= 0

F64Eq(a, b) == ~IsNaN(a) /\ ~IsNaN(b) /\ F64Cmp(a, b) = 0

F64Neg(a) == IF IsNaN(a) THEN NaN ELSE [a EXCEPT !.sgn = 1 - a.sgn]

\* The sum of two finite values.  An operand more than FarApart binary places
\* below the other only decides the rounding direction.
FarApart == 64

\* mh * 2^e plus or minus ml * 2^e, for mh >= ml
AddAligned(s, same, mh, ml, e) ==
    IF same THEN F64Round(s, BAdd(mh, ml), e, FALSE)
    ELSE IF mh = ml THEN Zero(0)
    ELSE F64Round(s, BSub(mh, ml), e, FALSE)

\* |hi| >= |lo| > 0
AddOrdered(hi, lo) ==
    IF hi.exp - lo.exp > FarApart
    THEN F64Round(hi.sgn,
                  IF hi.sgn = lo.sgn THEN BShl(hi.man, 3)
                  ELSE BSub(BShl(hi.man, 3), <<1>>),
                  hi.exp - 3, TRUE)
    ELSE AddAligned(hi.sgn, hi.sgn = lo.sgn,
                    BShl(hi.man, hi.exp - lo.exp), lo.man, lo.exp)

AddFinite(a, b) ==
    IF IsZero(a) /\ IsZero(b) THEN Zero(IF a.sgn = 1 /\ b.sgn = 1 THEN 1 ELSE 0)
    ELSE IF IsZero(a) THEN b
    ELSE IF IsZero(b) THEN a
    ELSE IF MagCmp(a, b) >= 0 THEN AddOrdered(a, b)
    ELSE AddOrdered(b, a)

F64Add(a, b) ==
    IF IsNaN(a) \/ IsNaN(b) THEN NaN
    ELSE IF IsInf(a) THEN (IF IsInf(b) /\ a.sgn # b.sgn THEN NaN ELSE a)
    ELSE IF IsInf(b) THEN b
    ELSE AddFinite(a, b)

F64Sub(a, b) == F64Add(a, F64Neg(b))

F64Mul(a, b) ==
    IF IsNaN(a) \/ IsNaN(b) THEN NaN
    ELSE IF IsInf(a) \/ IsInf(b)
         THEN (IF IsZero(a) \/ IsZero(b) THEN NaN ELSE Inf(Xor(a.sgn, b.sgn)))
    ELSE F64Round(Xor(a.sgn, b.sgn), BMul(a.man, b.man), a.exp + b.exp, FALSE)

\* the quotient qr[1] * 2^e, with a remainder qr[2] below it
RoundQuotient(s, qr, e) == F64Round(s, qr[1], e, qr[2] # <<>>)

\* how far to shift m left for a quotient by p of MantBits + 3 bits or more
QuotientShift(m, p) == Max(0, MantBits + 3 + BBitLen(p) - BBitLen(m))

DivShifted(a, b, k) ==
    RoundQuotient(Xor(a.sgn, b.sgn), BDivMod(BShl(a.man, k), b.man),
                  a.exp - b.exp - k)

DivFinite(a, b) == DivShifted(a, b, QuotientShift(a.man, b.man))

F64Div(a, b) ==
    IF IsNaN(a) \/ IsNaN(b) THEN NaN
    ELSE IF IsInf(a) THEN (IF IsInf(b) THEN NaN ELSE Inf(Xor(a.sgn, b.sgn)))
    ELSE IF IsInf(b) THEN Zero(Xor(a.sgn, b.sgn))
    ELSE IF IsZero(b) THEN (IF IsZero(a) THEN NaN ELSE Inf(Xor(a.sgn, b.sgn)))
    ELSE IF IsZero(a) THEN Zero(Xor(a.sgn, b.sgn))
    ELSE DivFinite(a, b)

\* libm::sqrt: correctly rounded
\* the root r = floor(sqrt(n)) at exponent e, inexact when r * r # n
RoundRoot(n, r, e) == F64Round(0, r, e, BMul(r, r) # n)

SqrtOf(n, e) == RoundRoot(n, BSqrt(n), e)

\* k0 or k0 + 1, whichever leaves the exponent e - k even
EvenShift(e, k0) == IF (e - k0) % 2 = 0 THEN k0 ELSE k0 + 1

SqrtShifted(a, k) == SqrtOf(BShl(a.man, k), (a.exp - k) \div 2)

SqrtFinite(a) ==
    SqrtShifted(a, EvenShift(a.exp, Max(0, 2 * (MantBits + 3) - BBitLen(a.man))))

F64Sqrt(a) ==
    IF IsNaN(a) THEN NaN
    ELSE IF IsZero(a) THEN a
    ELSE IF a.sgn = 1 THEN NaN
    ELSE IF IsInf(a) THEN a
    ELSE SqrtFinite(a)

\* f64::min: a NaN operand is ignored
F64Min(a, b) ==
    IF IsNaN(a) THEN b
    ELSE IF IsNaN(b) THEN a
    ELSE IF F64Cmp(a, b) <= 0 THEN a ELSE b

\* The literal d * 10^k of the source text, rounded once as rustc reads it
DecShifted(s, m, p, sh) == RoundQuotient(s, BDivMod(BShl(m, sh), p), -sh)

DecOver(s, m, p) == DecShifted(s, m, p, QuotientShift(m, p))

DecOf(s, m, k) ==
    IF m = <<>> THEN Zero(s)
    ELSE IF k >= 0 THEN F64Round(s, BMul(m, BPow10(k)), 0, FALSE)
    ELSE DecOver(s, m, BPow10(-k))

F64Dec(d, k) ==
    IF d < 0 THEN DecOf(1, BFromInt(-d), k) ELSE DecOf(0, BFromInt(d), k)


(***************************************************************************)
(* Results.  A function returns Ok(value) or Err(reason); Result::unwrap   *)
(* of an Err panics, which aborts the caller.                              *)
(***************************************************************************)
Ok(v) == [tag |-> "Ok", val |-> v, err |-> ""]

Err(reason) == [tag |-> "Err", val |-> Zero(0), err |-> reason]

Panic(reason) == [tag |-> "Panic", val |-> Zero(0), err |-> reason]

unwrap(r) == IF r.tag = "Ok" THEN r ELSE Panic(r.err)

F64Zero == Zero(0)

F64One == F64FromInt(1)

F64Two == F64FromInt(2)

(***************************************************************************)
(* utils.rs: Eccentricity, a Real behind a validating constructor.         *)
(***************************************************************************)
\* (a variant to test C30 against: an eccentricity of 1 or more refused)
Eccentricity_new_bound(value) ==
    IF F64Lt(value, F64Zero)
    THEN Err("Eccentricity cannot be negative")
    ELSE IF F64Ge(value, F64One)
    THEN Err("Eccentricity must be below one")
    ELSE Ok(value)

Eccentricity_new(value) ==
    IF F64Lt(value, F64Zero)
    THEN Err("Eccentricity cannot be negative")
    ELSE Ok(value)

(***************************************************************************)
(* kepler.rs: Ellipse {e, f, r_p} and the free helpers.                    *)
(***************************************************************************)
Ellipse_new(e, f, r_p) == [e |-> e, f |-> f, r_p |-> r_p]

\* Ellipse { e: <the unwrapped Eccentricity>, f, r_p }, unless unwrap panicked
EllipseWith(u, f, r_p) ==
    IF u.tag = "Panic" THEN u ELSE Ok([e |-> u.val, f |-> f, r_p |-> r_p])

from_periapsis_apoapsis(r_p, r_a, f) ==
    EllipseWith(unwrap(Eccentricity_new(F64Div(F64Sub(r_a, r_p), F64Add(r_a, r_p)))),
                f, r_p)

eccentricity(self) == self.e

primary_focus(self) == self.f

periapsis(self) == self.r_p

\* (a variant to test C15 against: the division by zero avoided, and the
\* largest finite length returned in its place)
semi_major_axis_bounded(self) ==
    IF F64Eq(eccentricity(self), F64One)
    THEN Fin(0, <<32767, 32767, 32767, 255>>, MaxExp)
    ELSE F64Div(periapsis(self), F64Sub(F64One, eccentricity(self)))

semi_major_axis(self) ==
    F64Div(periapsis(self), F64Sub(F64One, eccentricity(self)))

\* (a variant to test C8 against: a * (1 - e^2), the square root left out)
semi_minor_axis_no_sqrt(self) ==
    F64Mul(semi_major_axis(self),
           F64Sub(F64One, F64Mul(eccentricity(self), eccentricity(self))))

semi_minor_axis(self) ==
    F64Mul(semi_major_axis(self),
           F64Sqrt(F64Sub(F64One, F64Mul(eccentricity(self), eccentricity(self)))))

\* (a variant to test C7 against: a * (1 - e), the periapsis again)
apoapsis_minus(self) ==
    F64Mul(semi_major_axis(self), F64Sub(F64One, eccentricity(self)))

apoapsis(self) ==
    F64Mul(semi_major_axis(self), F64Add(F64One, eccentricity(self)))

\* (a variant to test C14 against: e * r_p, the periapsis in place of a)
focal_distance_of_periapsis(self) ==
    F64Mul(eccentricity(self), periapsis(self))

focal_distance(self) ==
    F64Mul(eccentricity(self), semi_major_axis(self))

calc_2a(r_f, r_f_p) == F64Add(r_f, r_f_p)

\* (a variant to test C23 against: r_f - r_f', whichever is the larger)
calc_2c_signed(r_f, r_f_p) == F64Sub(r_f, r_f_p)

calc_2c(r_f, r_f_p) ==
    IF F64Gt(r_f, r_f_p) THEN F64Sub(r_f, r_f_p) ELSE F64Sub(r_f_p, r_f)

\* (a variant to test C28 against: 2c over a, the focal distance not halved)
calc_ecc_unhalved(r_f, r_f_p) ==
    unwrap(Eccentricity_new(F64Div(calc_2c(r_f, r_f_p),
                                   F64Div(calc_2a(r_f, r_f_p), F64Two))))

calc_ecc(r_f, r_f_p) ==
    LET two_a == calc_2a(r_f, r_f_p)
        two_c == calc_2c(r_f, r_f_p)
        a     == F64Div(two_a, F64Two)
        c     == F64Div(two_c, F64Two)
    IN  unwrap(Eccentricity_new(F64Div(c, a)))

(***************************************************************************)
(* utils.rs: the quantity types and their operators.  A quantity is a      *)
(* tuple struct around one Real; an operator exists for two types only     *)
(* where an impl of its trait is written, and each impl computes on the    *)
(* wrapped Reals and wraps the result in its Output type.                  *)
(***************************************************************************)
QuantityTypes ==
    { "Centimeters", "Meters", "Kilometers", "CentimetersSquared",
      "MetersSquared", "MetersCubed", "Pascals", "NewtonsPerMetersSquared",
      "Kilograms", "KilogramsPerMetersCubed",
      "MetersCubedByKilogramSecondsSquared", "MetersPerSecond",
      "MetersPerSecondSquared", "Seconds", "RadiansPerSecond" }

\* pub type Real = f64: what an operator may also take or give
Types == QuantityTypes \cup {"Real"}

\* impl Mul<Real> for Pascals
Pascals_mul(self, rhs) == F64Mul(self, rhs)

\* (a variant to test C13 against: the square root taken by the operator too)
Pascals_div_rooted(self, rhs) == F64Sqrt(F64Div(self, rhs))

\* impl Div<KilogramsPerMetersCubed> for Pascals
Pascals_div(self, rhs) == F64Div(self, rhs)

\* impl From<Kilometers> for Meters
Meters_from(km) == F64Mul(km, F64FromInt(1000))

\* impl Add for Kilometers
Kilometers_add(self, rhs) == F64Add(self, rhs)

\* (a variant to test C18 against: a kilometer of a hundred meters)
Kilometers_from_hundreds(m) == F64Div(m, F64FromInt(100))

\* impl From<Meters> for Kilometers
Kilometers_from(m) == F64Div(m, F64FromInt(1000))

\* impl Add for Meters
Meters_add(self, rhs) == F64Add(self, rhs)

\* impl Div for Meters
Meters_div(self, rhs) == F64Div(self, rhs)

\* impl Mul<Real> for Meters
Meters_mul_Real(self, rhs) == F64Mul(self, rhs)

\* impl Div<Real> for Meters
Meters_div_Real(self, rhs) == F64Div(self, rhs)

\* impl Mul for Meters
Meters_mul(self, rhs) == F64Mul(self, rhs)

\* impl From<MetersSquared> for CentimetersSquared
CentimetersSquared_from(m2) == F64Mul(m2, F64FromInt(10000))

\* impl From<CentimetersSquared> for MetersSquared
MetersSquared_from(cm2) == F64Mul(cm2, F64Dec(1, -4))

\* impl Add for MetersSquared
MetersSquared_add(self, rhs) == F64Add(self, rhs)

\* impl Sub for MetersSquared
MetersSquared_sub(self, rhs) == F64Sub(self, rhs)

\* impl Mul<Real> for MetersSquared
MetersSquared_mul_Real(self, rhs) == F64Mul(self, rhs)

\* impl Div<Real> for MetersSquared
MetersSquared_div_Real(self, rhs) == F64Div(self, rhs)

\* impl Div<Meters> for MetersSquared
MetersSquared_div_Meters(self, rhs) == F64Div(self, rhs)

\* impl Mul<MetersSquared> for Meters
Meters_mul_MetersSquared(self, rhs) == F64Mul(self, rhs)

\* impl Mul<Meters> for Real
Real_mul_Meters(self, rhs) == F64Mul(self, rhs)

\* impl Sub for Meters
Meters_sub(self, rhs) == F64Sub(self, rhs)

\* One impl: `impl trait<rhs> for self`, with its Output type.  For From,
\* rhs is the type converted from and out is self.
Impl(name, trait, self, rhs, out) ==
    [name |-> name, trait |-> trait, self |-> self, rhs |-> rhs, out |-> out]

\* the impls of core::convert::From in utils.rs
FromImpls ==
    { Impl("From<Kilometers> for Meters", "From", "Meters", "Kilometers", "Meters"),
      Impl("From<Meters> for Kilometers", "From", "Kilometers", "Meters", "Kilometers"),
      Impl("From<MetersSquared> for CentimetersSquared", "From",
           "CentimetersSquared", "MetersSquared", "CentimetersSquared"),
      Impl("From<CentimetersSquared> for MetersSquared", "From",
           "MetersSquared", "CentimetersSquared", "MetersSquared") }

\* the impls of core::ops::Add in utils.rs
AddImpls ==
    { Impl("Add for Kilometers", "Add", "Kilometers", "Kilometers", "Kilometers"),
      Impl("Add for Meters", "Add", "Meters", "Meters", "Meters"),
      Impl("Add for MetersSquared", "Add",
           "MetersSquared", "MetersSquared", "MetersSquared") }

\* the impls of core::ops::Sub in utils.rs
SubImpls ==
    { Impl("Sub for MetersSquared", "Sub",
           "MetersSquared", "MetersSquared", "MetersSquared"),
      Impl("Sub for Meters", "Sub", "Meters", "Meters", "Meters") }

\* (a variant to test C20 against: Mul for MetersSquared where Mul<Real> is,
\* with a volume for its Output)
MulImplsOfAreas ==
    { Impl("Mul<Real> for Pascals", "Mul", "Pascals", "Real", "Pascals"),
      Impl("Mul<Real> for Meters", "Mul", "Meters", "Real", "Meters"),
      Impl("Mul for Meters", "Mul", "Meters", "Meters", "MetersSquared"),
      Impl("Mul<Real> for MetersSquared", "Mul",
           "MetersSquared", "MetersSquared", "MetersCubed"),
      Impl("Mul<MetersSquared> for Meters", "Mul",
           "Meters", "MetersSquared", "MetersCubed"),
      Impl("Mul<Meters> for Real", "Mul", "Real", "Meters", "Meters") }

\* the impls of core::ops::Mul in utils.rs
MulImpls ==
    { Impl("Mul<Real> for Pascals", "Mul", "Pascals", "Real", "Pascals"),
      Impl("Mul<Real> for Meters", "Mul", "Meters", "Real", "Meters"),
      Impl("Mul for Meters", "Mul", "Meters", "Meters", "MetersSquared"),
      Impl("Mul<Real> for MetersSquared", "Mul",
           "MetersSquared", "Real", "MetersSquared"),
      Impl("Mul<MetersSquared> for Meters", "Mul",
           "Meters", "MetersSquared", "MetersCubed"),
      Impl("Mul<Meters> for Real", "Mul", "Real", "Meters", "Meters") }

\* the impls of core::ops::Div in utils.rs
DivImpls ==
    { Impl("Div<KilogramsPerMetersCubed> for Pascals", "Div",
           "Pascals", "KilogramsPerMetersCubed", "MetersPerSecond"),
      Impl("Div for Meters", "Div", "Meters", "Meters", "Real"),
      Impl("Div<Real> for Meters", "Div", "Meters", "Real", "Meters"),
      Impl("Div<Real> for MetersSquared", "Div",
           "MetersSquared", "Real", "MetersSquared"),
      Impl("Div<Meters> for MetersSquared", "Div",
           "MetersSquared", "Meters", "Meters") }

\* every operator and conversion between quantities that utils.rs defines
Impls == FromImpls \cup AddImpls \cup SubImpls \cup MulImpls \cup DivImpls

\* the Real in the Output of impl i, called on the Reals in self and rhs (a
\* From impl reads rhs alone)
Apply(i, self, rhs) ==
    CASE i.name = "Div<KilogramsPerMetersCubed> for Pascals" -> Pascals_div(self, rhs)
      [] i.name = "Mul<Real> for Pascals" -> Pascals_mul(self, rhs)
      [] i.name = "From<Kilometers> for Meters" -> Meters_from(rhs)
      [] i.name = "Add for Kilometers" -> Kilometers_add(self, rhs)
      [] i.name = "From<Meters> for Kilometers" -> Kilometers_from(rhs)
      [] i.name = "Add for Meters" -> Meters_add(self, rhs)
      [] i.name = "Div for Meters" -> Meters_div(self, rhs)
      [] i.name = "Mul<Real> for Meters" -> Meters_mul_Real(self, rhs)
      [] i.name = "Div<Real> for Meters" -> Meters_div_Real(self, rhs)
      [] i.name = "Mul for Meters" -> Meters_mul(self, rhs)
      [] i.name = "From<MetersSquared> for CentimetersSquared" ->
             CentimetersSquared_from(rhs)
      [] i.name = "From<CentimetersSquared> for MetersSquared" ->
             MetersSquared_from(rhs)
      [] i.name = "Add for MetersSquared" -> MetersSquared_add(self, rhs)
      [] i.name = "Sub for MetersSquared" -> MetersSquared_sub(self, rhs)
      [] i.name = "Mul<Real> for MetersSquared" -> MetersSquared_mul_Real(self, rhs)
      [] i.name = "Div<Real> for MetersSquared" -> MetersSquared_div_Real(self, rhs)
      [] i.name = "Div<Meters> for MetersSquared" ->
             MetersSquared_div_Meters(self, rhs)
      [] i.name = "Mul<MetersSquared> for Meters" ->
             Meters_mul_MetersSquared(self, rhs)
      [] i.name = "Mul<Meters> for Real" -> Real_mul_Meters(self, rhs)
      [] i.name = "Sub for Meters" -> Meters_sub(self, rhs)

(***************************************************************************)
(* materials.rs: Material {name, tensile_strength, density}.               *)
(***************************************************************************)
Material_new(name, tensile_strength, density) ==
    [name |-> name, tensile_strength |-> tensile_strength, density |-> density]

(***************************************************************************)
(* tethers.rs                                                              *)
(***************************************************************************)
MaxTensileStrength == F64Dec(200, 9)

MaxDensity == F64FromInt(50000)

\* (a variant to test C2 against: the upper bounds made exclusive)
characteristic_velocity_exclusive(tensile_strength, density) ==
    IF F64Le(tensile_strength, F64Zero)
    THEN Err("Tensile strength must be positive")
    ELSE IF F64Le(density, F64Zero)
    THEN Err("Density must be positive")
    ELSE IF F64Ge(tensile_strength, MaxTensileStrength)
    THEN Err("Tensile strength exceeds known material limits")
    ELSE IF F64Ge(density, MaxDensity)
    THEN Err("Density exceeds reasonable material limits")
    ELSE Ok(F64Sqrt(F64Div(F64Mul(tensile_strength, F64Two), density)))

\* (a variant to test C24 against: the two limits checked before the density
\* is known to be positive)
characteristic_velocity_limits_first(tensile_strength, density) ==
    IF F64Le(tensile_strength, F64Zero)
    THEN Err("Tensile strength must be positive")
    ELSE IF F64Gt(tensile_strength, MaxTensileStrength)
    THEN Err("Tensile strength exceeds known material limits")
    ELSE IF F64Gt(density, MaxDensity)
    THEN Err("Density exceeds reasonable material limits")
    ELSE IF F64Le(density, F64Zero)
    THEN Err("Density must be positive")
    ELSE Ok(F64Sqrt(Pascals_div(Pascals_mul(tensile_strength, F64Two), density)))

\* (a variant to test C29 against: sqrt((density * 2) / strength))
characteristic_velocity_inverted(tensile_strength, density) ==
    IF F64Le(tensile_strength, F64Zero)
    THEN Err("Tensile strength must be positive")
    ELSE IF F64Le(density, F64Zero)
    THEN Err("Density must be positive")
    ELSE IF F64Gt(tensile_strength, MaxTensileStrength)
    THEN Err("Tensile strength exceeds known material limits")
    ELSE IF F64Gt(density, MaxDensity)
    THEN Err("Density exceeds reasonable material limits")
    ELSE Ok(F64Sqrt(Pascals_div(Pascals_mul(density, F64Two), tensile_strength)))

characteristic_velocity(tensile_strength, density) ==
    IF F64Le(tensile_strength, F64Zero)
    THEN Err("Tensile strength must be positive")
    ELSE IF F64Le(density, F64Zero)
    THEN Err("Density must be positive")
    ELSE IF F64Gt(tensile_strength, MaxTensileStrength)
    THEN Err("Tensile strength exceeds known material limits")
    ELSE IF F64Gt(density, MaxDensity)
    THEN Err("Density exceeds reasonable material limits")
    ELSE Ok(F64Sqrt(Pascals_div(Pascals_mul(tensile_strength, F64Two), density)))

\* materials.rs: Material::specific_strength
specific_strength(self) == F64Div(self.tensile_strength, self.density)

characteristic_velocity_for_material(material) ==
    characteristic_velocity(material.tensile_strength, material.density)

momentum_exchange_orbital_velocity(radius, gravitational_parameter) ==
    IF F64Le(radius, F64Zero)
    THEN Err("Orbital radius must be positive")
    ELSE IF F64Le(gravitational_parameter, F64Zero)
    THEN Err("Gravitational parameter must be positive")
    ELSE Ok(F64Sqrt(F64Div(gravitational_parameter, radius)))

\* f64::consts::TAU
TAU == Fin(0, <<11544, 10376, 2029, 201>>, -50)

\* libm::pow(x, 3.0), taken as the cube rounded once
Pow3(x) ==
    IF IsNaN(x) \/ IsInf(x) \/ IsZero(x) THEN x
    ELSE F64Round(x.sgn, BMul(BMul(x.man, x.man), x.man), 3 * x.exp, FALSE)

\* (a variant to test C9 against: the gravitational parameter checked first)
orbital_period_mu_first(radius, gravitational_parameter) ==
    IF F64Le(gravitational_parameter, F64Zero)
    THEN Err("Gravitational parameter must be positive")
    ELSE IF F64Le(radius, F64Zero)
    THEN Err("Orbital radius must be positive")
    ELSE Ok(F64Mul(TAU, F64Sqrt(F64Div(Pow3(radius), gravitational_parameter))))

\* (a variant to test C16 against: the square of the radius for its cube)
orbital_period_of_square(radius, gravitational_parameter) ==
    IF F64Le(radius, F64Zero)
    THEN Err("Orbital radius must be positive")
    ELSE IF F64Le(gravitational_parameter, F64Zero)
    THEN Err("Gravitational parameter must be positive")
    ELSE Ok(F64Mul(TAU, F64Sqrt(F64Div(F64Mul(radius, radius),
                                       gravitational_parameter))))

momentum_exchange_orbital_period(radius, gravitational_parameter) ==
    IF F64Le(radius, F64Zero)
    THEN Err("Orbital radius must be positive")
    ELSE IF F64Le(gravitational_parameter, F64Zero)
    THEN Err("Gravitational parameter must be positive")
    ELSE Ok(F64Mul(TAU, F64Sqrt(F64Div(Pow3(radius), gravitational_parameter))))

\* (a variant to test C17 against: the square of the radius for its cube)
angular_velocity_of_square(radius, gravitational_parameter) ==
    IF F64Le(radius, F64Zero)
    THEN Err("Orbital radius must be positive")
    ELSE IF F64Le(gravitational_parameter, F64Zero)
    THEN Err("Gravitational parameter must be positive")
    ELSE Ok(F64Sqrt(F64Div(gravitational_parameter, F64Mul(radius, radius))))

momentum_exchange_angular_velocity(radius, gravitational_parameter) ==
    IF F64Le(radius, F64Zero)
    THEN Err("Orbital radius must be positive")
    ELSE IF F64Le(gravitational_parameter, F64Zero)
    THEN Err("Gravitational parameter must be positive")
    ELSE Ok(F64Sqrt(F64Div(gravitational_parameter, Pow3(radius))))

\* (a variant to test C3 against: the two `?` in the other order)
EfficiencyOfOrbitFirst(char_velocity, orbital_velocity) ==
    IF orbital_velocity.tag = "Err" THEN orbital_velocity
    ELSE IF char_velocity.tag = "Err" THEN char_velocity
    ELSE Ok(F64Min(F64Div(char_velocity.val, orbital_velocity.val), F64One))

\* (a variant to test C4 against: the ratio returned without .min(1.0))
EfficiencyOfUncapped(char_velocity, orbital_velocity) ==
    IF char_velocity.tag = "Err" THEN char_velocity
    ELSE IF orbital_velocity.tag = "Err" THEN orbital_velocity
    ELSE Ok(F64Div(char_velocity.val, orbital_velocity.val))

\* `char_velocity?` then `orbital_velocity?`, then (char / orbital).min(1.0)
EfficiencyOf(char_velocity, orbital_velocity) ==
    IF char_velocity.tag = "Err" THEN char_velocity
    ELSE IF orbital_velocity.tag = "Err" THEN orbital_velocity
    ELSE Ok(F64Min(F64Div(char_velocity.val, orbital_velocity.val), F64One))

momentum_exchange_efficiency(material, radius, gravitational_parameter) ==
    EfficiencyOf(characteristic_velocity_for_material(material),
                 momentum_exchange_orbital_velocity(radius, gravitational_parameter))

\* the multiplier of lines 317-330, for lengths that passed the checks
\* (a variant to test C11 against: the linear scaling by 4 in place of 5)
SpinMultiplierBy4(tether_length, central_body_radius) ==
    F64Min(F64Add(F64One,
                  F64Mul(F64Div(F64Div(F64Mul(tether_length, F64Two),
                                       F64Mul(central_body_radius, F64Two)),
                                F64Div(F64One, F64FromInt(3))),
                         F64FromInt(4))),
           F64FromInt(10))

\* (a variant to test C12 against: the two diameters divided the other way)
SpinMultiplierInverted(tether_length, central_body_radius) ==
    F64Min(F64Add(F64One,
                  F64Mul(F64Div(F64Div(F64Mul(central_body_radius, F64Two),
                                       F64Mul(tether_length, F64Two)),
                                F64Div(F64One, F64FromInt(3))),
                         F64FromInt(5))),
           F64FromInt(10))

SpinMultiplier(tether_length, central_body_radius) ==
    LET tether_diameter         == F64Mul(tether_length, F64Two)
        central_body_diameter   == F64Mul(central_body_radius, F64Two)
        diameter_ratio          == F64Div(tether_diameter, central_body_diameter)
        moravec_reference_ratio == F64Div(F64One, F64FromInt(3))
        spin_multiplier         ==
            F64Add(F64One,
                   F64Mul(F64Div(diameter_ratio, moravec_reference_ratio),
                          F64FromInt(5)))
        max_spin_rate           == F64FromInt(10)
    IN  F64Min(spin_multiplier, max_spin_rate)

\* (a variant to test C10 against: the central body radius left unchecked)
spin_rate_radius_unchecked(tether_length, central_body_radius) ==
    IF F64Le(tether_length, F64Zero)
    THEN Err("Tether length must be positive")
    ELSE Ok(SpinMultiplier(tether_length, central_body_radius))

momentum_exchange_spin_rate(tether_length, central_body_radius) ==
    IF F64Le(tether_length, F64Zero)
    THEN Err("Tether length must be positive")
    ELSE IF F64Le(central_body_radius, F64Zero)
    THEN Err("Central body radius must be positive")
    ELSE Ok(SpinMultiplier(tether_length, central_body_radius))


(***************************************************************************)
(* almagest-wasm/src/lib.rs: the wrappers exported to JavaScript.  They    *)
(* take f64 fields, wrap them in the quantity types, call the function of  *)
(* tethers.rs and unwrap the f64 of its Ok; an Err becomes a JsValue, which *)
(* is the message on wasm32 and undefined on any other target.             *)
(***************************************************************************)
JsMaterial_new(tensile_strength, density) ==
    [tensile_strength |-> tensile_strength, density |-> density]

JsOrbitalParams_new(radius, gravitational_parameter) ==
    [radius |-> radius, gravitational_parameter |-> gravitational_parameter]

JsTetherParams_new(tensile_strength, density, orbital_radius, mu) ==
    [material_tensile_strength |-> tensile_strength,
     material_density |-> density,
     orbital_radius |-> orbital_radius,
     gravitational_parameter |-> mu]

Targets == {"wasm32", "native"}

handle_error(error_msg, target) ==
    IF target = "wasm32" THEN error_msg ELSE "JsValue::UNDEFINED"

\* match r { Ok(T(val)) => Ok(val), Err(e) => Err(handle_error(e)) }
MatchResult(r, target) ==
    IF r.tag = "Ok" THEN Ok(r.val) ELSE Err(handle_error(r.err, target))

\* (a variant to test C22 against: the two fields of the material exchanged)
characteristic_velocity_js_exchanged(material, target) ==
    MatchResult(characteristic_velocity(material.density,
                                        material.tensile_strength), target)

characteristic_velocity_js(material, target) ==
    MatchResult(characteristic_velocity(material.tensile_strength,
                                        material.density), target)

momentum_exchange_orbital_velocity_js(params, target) ==
    MatchResult(momentum_exchange_orbital_velocity(
                    params.radius, params.gravitational_parameter), target)

momentum_exchange_orbital_period_js(params, target) ==
    MatchResult(momentum_exchange_orbital_period(
                    params.radius, params.gravitational_parameter), target)

momentum_exchange_angular_velocity_js(params, target) ==
    MatchResult(momentum_exchange_angular_velocity(
                    params.radius, params.gravitational_parameter), target)

momentum_exchange_efficiency_js(params, target) ==
    MatchResult(momentum_exchange_efficiency(
                    Material_new("Custom Material",
                                 params.material_tensile_strength,
                                 params.material_density),
                    params.orbital_radius, params.gravitational_parameter),
                target)

momentum_exchange_spin_rate_js(tether_length, central_body_radius, target) ==
    MatchResult(momentum_exchange_spin_rate(tether_length, central_body_radius),
                target)

(***************************************************************************)
(* The caller.  A behaviour fixes the arguments a caller passes (a         *)
(* material, two reals, a focus) and then calls the library.  The tether   *)
(* functions read nothing but their arguments, so one call of each is made *)
(* from the start; the Ellipse methods act on the Ellipse an earlier call  *)
(* built, so the Kepler calls follow one another in any order.  A panic    *)
(* ends the caller.  The operators of utils.rs act on the quantities the   *)
(* caller has bound so far: it wraps its reals in quantity types, and each *)
(* operator or conversion it applies binds one more quantity.  Several     *)
(* execution contexts may call the tether functions at once; each has the  *)
(* arguments and locals of its invocation in a frame of its own, and all   *)
(* of them borrow the one Material.  A JavaScript caller passes the same   *)
(* reals to the wrappers of almagest-wasm.                                  *)
(***************************************************************************)
VARIABLES
    mat,    \* the Material passed
    x, y,   \* the two Real arguments passed, in the order of the signature
    foc,    \* the focus Point passed
    ell,    \* the Ellipse the caller holds: <<>> or <<ellipse>>
    ret,    \* the last call made and what it returned
    bindings,  \* the quantities the caller has bound, in the order it bound them
    frames  \* per execution context, the invocation it is in: the function,
            \* its arguments and locals, and what it has returned

vars == <<mat, x, y, foc, ell, ret, bindings, frames>>

\* Bounds of the model: how many of the sample arguments below are drawn.
NumTetherSamples == 14

NumKeplerSamples == 10

NumMaterials == 5

NumFoci == 2

NumAlgebraSamples == 6

\* how many quantities a caller binds at most
MaxBindings == 4

\* how many execution contexts call the library at once, and how many of the
\* sample arguments they pass
NumContexts == 2

NumConcurrentSamples == 2

NumWasmSamples == 6

NumComparedMaterials == 6

F64FromBig(m) == F64Round(0, m, 0, FALSE)

\* the next f64 above a positive normal value whose significand is not all ones
NextUp(v) == Fin(v.sgn, BAdd(v.man, <<1>>), v.exp)

MinSubnormal == Fin(0, <<1>>, MinExp)

\* 2 * 2^-1074, the next f64 above the smallest subnormal
TwoSubnormal == Fin(0, <<2>>, MinExp)

MaxFinite == Fin(0, <<32767, 32767, 32767, 255>>, MaxExp)

\* 3 * 2^-539, about 1.7e-162: a length whose square is below the normal range
TinyLength == Fin(0, <<0, 0, 0, 192>>, -590)

\* 6.371e6, Earth's radius in the tests of tethers.rs
EarthRadius == F64Dec(6371, 3)

\* earth_radius.0 / 3.0, the tether of the Moravec reference case
MoravecTether == F64Div(EarthRadius, F64FromInt(3))

\* 3.986004418e14, Earth's gravitational parameter in the tests of tethers.rs
EarthMu == F64FromBig(BMul(BFromInt(1993002209), BFromInt(200000)))

TetherSampleList ==
    << NaN,
       F64FromInt(-1000),
       Zero(0),
       MinSubnormal,
       F64FromInt(1340),
       MaxDensity,
       NextUp(MaxDensity),
       F64Dec(6771, 3),
       MaxTensileStrength,
       NextUp(MaxTensileStrength),
       EarthMu,
       Inf(0),
       EarthRadius,
       MoravecTether,
       F64Dec(59, 8),
       Zero(1),
       MaxFinite,
       Inf(1) >>

TetherSamples == {TetherSampleList[i] : i \in 1..NumTetherSamples}

KeplerSampleList ==
    << NaN,
       F64FromInt(-1),
       Zero(0),
       F64Dec(5, -1),
       F64One,
       F64FromInt(7000),
       F64Dec(1, 17),
       TinyLength,
       MinSubnormal,
       TwoSubnormal,
       Inf(0),
       F64Dec(3, -1),
       MaxFinite >>

KeplerSamples == {KeplerSampleList[i] : i \in 1..NumKeplerSamples}

\* fibers::PBO, metals::ALUMINUM_6061_T6, and materials a caller builds with
\* Material::new (the wasm tests build the invalid ones)
PBO == Material_new("PBO (Zylon)", F64Dec(59, 8), F64FromInt(1340))

ALUMINUM_6061_T6 == Material_new("Aluminum 6061-T6", F64Dec(310, 6), F64FromInt(2700))

MaterialList ==
    << PBO,
       Material_new("negative strength", F64FromInt(-1000), F64FromInt(1340)),
       Material_new("feeble", MinSubnormal, MaxDensity),
       ALUMINUM_6061_T6,
       Material_new("zero density", F64Dec(59, 8), Zero(0)),
       Material_new("excessive strength", F64Dec(300, 9), F64FromInt(1340)),
       Material_new("not a number", NaN, F64FromInt(1340)) >>

\* the Reals wrapped in quantities: those of the conversion tests of utils.rs
\* (1000 and 1234.567 meters, 1 kilometer) and the ends of the f64 range
AlgebraSampleList ==
    << F64FromInt(1000),
       F64Dec(123, -3),
       MinSubnormal,
       MaxFinite,
       NaN,
       F64One,
       F64Dec(1234567, -3),
       F64FromInt(-3) >>

AlgebraSamples == {AlgebraSampleList[i] : i \in 1..NumAlgebraSamples}

\* the arguments passed by the contexts that call at once: the strength and
\* the density of PBO (tethers.rs:346), an invalid value, an orbit
ConcurrentSampleList ==
    << F64Dec(59, 8), F64FromInt(1340), F64FromInt(-1000), F64Dec(6771, 3) >>

ConcurrentSamples == {ConcurrentSampleList[i] : i \in 1..NumConcurrentSamples}

Contexts == 1..NumContexts

\* the numbers a JavaScript caller passes: those of the tests of lib.rs (PBO,
\* a negative strength, an orbit of Earth) and numbers no check expects
WasmSampleList ==
    << F64Dec(59, 8),
       F64FromInt(1340),
       F64FromInt(-1000),
       NaN,
       F64Dec(6771, 3),
       EarthMu,
       Zero(0),
       F64Dec(300, 9) >>

WasmSamples == {WasmSampleList[i] : i \in 1..NumWasmSamples}

Materials == {MaterialList[i] : i \in 1..NumMaterials}

\* fibers::UHMWPE, compared with PBO and ALUMINUM_6061_T6 by
\* test_material_specific_strength_correlation
UHMWPE == Material_new("UHMWPE (Dyneema/Spectra)", F64Dec(35, 8), F64FromInt(970))

\* the materials a caller compares: those of the test, the aluminum with a
\* strength one ulp higher, and materials that fail validation or barely pass
ComparedMaterialList ==
    << PBO,
       ALUMINUM_6061_T6,
       Material_new("stronger by an ulp", NextUp(F64Dec(310, 6)), F64FromInt(2700)),
       UHMWPE,
       Material_new("feeble", MinSubnormal, MaxDensity),
       Material_new("negative strength", F64FromInt(-1000), F64FromInt(1340)),
       Material_new("excessive strength", F64Dec(300, 9), F64FromInt(1340)) >>

ComparedMaterials == {ComparedMaterialList[i] : i \in 1..NumComparedMaterials}

Point(px, py) == [x |-> px, y |-> py]

FocusList ==
    << Point(Zero(0), Zero(0)), Point(F64One, F64One), Point(F64FromInt(-1), F64Two) >>

Foci == {FocusList[i] : i \in 1..NumFoci}

NoCall == [fn |-> "", tag |-> "None", val |-> Zero(0), err |-> ""]

Returned(fn, r) == [fn |-> fn, tag |-> r.tag, val |-> r.val, err |-> r.err]

InitTethers ==
    /\ mat \in Materials
    /\ x \in TetherSamples
    /\ y \in TetherSamples
    /\ foc = FocusList[1]
    /\ ell = <<>>
    /\ ret = NoCall
    /\ bindings = <<>>
    /\ frames = <<>>

InitKepler ==
    /\ mat = PBO
    /\ x \in KeplerSamples
    /\ y \in KeplerSamples
    /\ foc \in Foci
    /\ ell = <<>>
    /\ ret = NoCall
    /\ bindings = <<>>
    /\ frames = <<>>

InitAlgebra ==
    /\ mat = PBO
    /\ x \in AlgebraSamples
    /\ y \in AlgebraSamples
    /\ foc = FocusList[1]
    /\ ell = <<>>
    /\ ret = NoCall
    /\ bindings = <<>>
    /\ frames = <<>>

\* in no invocation: nothing passed, nothing returned; called tells whether
\* the context has made a call before
Idle(called) ==
    [fn |-> "", a |-> Zero(0), b |-> Zero(0), pc |-> "idle", ret |-> Ok(Zero(0)),
     called |-> called]

InitConcurrent ==
    /\ mat = PBO
    /\ x \in ConcurrentSamples
    /\ y \in ConcurrentSamples
    /\ foc = FocusList[1]
    /\ ell = <<>>
    /\ ret = NoCall
    /\ bindings = <<>>
    /\ frames = [c \in Contexts |-> Idle(FALSE)]

InitWasm ==
    /\ mat \in Materials
    /\ x \in WasmSamples
    /\ y \in WasmSamples
    /\ foc = FocusList[1]
    /\ ell = <<>>
    /\ ret = NoCall
    /\ bindings = <<>>
    /\ frames = <<>>

\* the caller holds two materials to compare: mat, and the other, of tensile
\* strength x and density y
InitMaterials ==
    /\ mat \in ComparedMaterials
    /\ \E other \in ComparedMaterials :
           x = other.tensile_strength /\ y = other.density
    /\ foc = FocusList[1]
    /\ ell = <<>>
    /\ ret = NoCall
    /\ bindings = <<>>
    /\ frames = <<>>

Init ==
    \/ InitTethers
    \/ InitKepler
    \/ InitAlgebra
    \/ InitConcurrent
    \/ InitWasm
    \/ InitMaterials

(***************************************************************************)
(* Calls of tethers.rs                                                     *)
(***************************************************************************)
NotCalled == ret.tag = "None"

\* the caller keeps what fn returned; a call changes nothing else
Return(fn, r) ==
    /\ ret' = Returned(fn, r)
    /\ UNCHANGED <<mat, x, y, foc, ell, bindings, frames>>

CallCharacteristicVelocity ==
    /\ NotCalled
    /\ Return("characteristic_velocity", characteristic_velocity(x, y))

CallCharacteristicVelocityForMaterial ==
    /\ NotCalled
    /\ Return("characteristic_velocity_for_material",
              characteristic_velocity_for_material(mat))

CallOrbitalVelocity ==
    /\ NotCalled
    /\ Return("momentum_exchange_orbital_velocity",
              momentum_exchange_orbital_velocity(x, y))

CallOrbitalPeriod ==
    /\ NotCalled
    /\ Return("momentum_exchange_orbital_period",
              momentum_exchange_orbital_period(x, y))

CallAngularVelocity ==
    /\ NotCalled
    /\ Return("momentum_exchange_angular_velocity",
              momentum_exchange_angular_velocity(x, y))

CallEfficiency ==
    /\ NotCalled
    /\ Return("momentum_exchange_efficiency",
              momentum_exchange_efficiency(mat, x, y))

CallSpinRate ==
    /\ NotCalled
    /\ Return("momentum_exchange_spin_rate", momentum_exchange_spin_rate(x, y))

NextTethers ==
    \/ CallCharacteristicVelocity
    \/ CallCharacteristicVelocityForMaterial
    \/ CallOrbitalVelocity
    \/ CallOrbitalPeriod
    \/ CallAngularVelocity
    \/ CallEfficiency
    \/ CallSpinRate

(***************************************************************************)
(* Calls of utils.rs (Eccentricity) and kepler.rs                          *)
(***************************************************************************)
EccentricityFns == {"Eccentricity::new", "Ellipse::eccentricity", "calc_ecc"}

\* the last call handed the caller an Eccentricity
HoldsEccentricity == ret.tag = "Ok" /\ ret.fn \in EccentricityFns

\* no call has panicked
Running == ret.tag # "Panic"

\* the caller holds an Ellipse to call a method on
HoldsEllipse == Running /\ ell # <<>>

CallEccentricityNew ==
    /\ Running
    /\ Return("Eccentricity::new", Eccentricity_new(x))

\* Ellipse::new(e, f, r_p) with the Eccentricity just obtained
CallEllipseNew ==
    /\ Running
    /\ HoldsEccentricity
    /\ ell' = <<Ellipse_new(ret.val, foc, y)>>
    /\ ret' = Returned("Ellipse::new", Ok(Zero(0)))
    /\ UNCHANGED <<mat, x, y, foc, bindings, frames>>

\* what the caller is left with: the Ellipse built, or the one it had
Built(r, old) == IF r.tag = "Ok" THEN <<r.val>> ELSE old

Outcome(fn, r) == [fn |-> fn, tag |-> r.tag, val |-> Zero(0), err |-> r.err]

Construct(fn, r) ==
    /\ ell' = Built(r, ell)
    /\ ret' = Outcome(fn, r)
    /\ UNCHANGED <<mat, x, y, foc, bindings, frames>>

CallFromPeriapsisApoapsis ==
    /\ Running
    /\ Construct("Ellipse::from_periapsis_apoapsis",
                 from_periapsis_apoapsis(x, y, foc))

CallEccentricity ==
    /\ HoldsEllipse
    /\ Return("Ellipse::eccentricity", Ok(eccentricity(ell[1])))

CallPeriapsis ==
    /\ HoldsEllipse
    /\ Return("Ellipse::periapsis", Ok(periapsis(ell[1])))

CallSemiMajorAxis ==
    /\ HoldsEllipse
    /\ Return("Ellipse::semi_major_axis", Ok(semi_major_axis(ell[1])))

CallSemiMinorAxis ==
    /\ HoldsEllipse
    /\ Return("Ellipse::semi_minor_axis", Ok(semi_minor_axis(ell[1])))

CallApoapsis ==
    /\ HoldsEllipse
    /\ Return("Ellipse::apoapsis", Ok(apoapsis(ell[1])))

CallFocalDistance ==
    /\ HoldsEllipse
    /\ Return("Ellipse::focal_distance", Ok(focal_distance(ell[1])))

CallCalc2a ==
    /\ Running
    /\ Return("calc_2a", Ok(calc_2a(x, y)))

CallCalc2c ==
    /\ Running
    /\ Return("calc_2c", Ok(calc_2c(x, y)))

CallCalcEcc ==
    /\ Running
    /\ Return("calc_ecc", calc_ecc(x, y))

NextKepler ==
    \/ CallEccentricityNew
    \/ CallEllipseNew
    \/ CallFromPeriapsisApoapsis
    \/ CallEccentricity
    \/ CallPeriapsis
    \/ CallSemiMajorAxis
    \/ CallSemiMinorAxis
    \/ CallApoapsis
    \/ CallFocalDistance
    \/ CallCalc2a
    \/ CallCalc2c
    \/ CallCalcEcc

(***************************************************************************)
(* Uses of the quantity types of utils.rs                                  *)
(***************************************************************************)
\* a quantity the caller has bound: its type, the Real it wraps, and the impl
\* that made it ("" for the tuple struct's constructor)
Binding(ty, val, by) == [ty |-> ty, val |-> val, by |-> by]

Bind(b) ==
    /\ Len(bindings) < MaxBindings
    /\ bindings' = Append(bindings, b)
    /\ UNCHANGED <<mat, x, y, foc, ell, ret, frames>>

\* the quantity bound last, and the one bound before it
Last == bindings[Len(bindings)]

Former == bindings[Len(bindings) - 1]

\* `let a = T(x);` and then `let b = U(y);`, for any of the types (a plain
\* Real included)
Wrap ==
    \E ty \in Types :
        \/ bindings = <<>> /\ Bind(Binding(ty, x, ""))
        \/ Len(bindings) = 1 /\ Last.by = "" /\ Bind(Binding(ty, y, ""))

\* `former op last` compiles where an impl of the operator's trait is written
\* for the two types, and binds the impl's Output
Operate(impls) ==
    \E i \in impls :
        /\ i.self = Former.ty
        /\ i.rhs = Last.ty
        /\ Bind(Binding(i.out, Apply(i, Former.val, Last.val), i.name))

\* the caller holds two quantities to put an operator between
HoldsTwo == Len(bindings) >= 2

CallAdd ==
    /\ HoldsTwo
    /\ Operate(AddImpls)

CallSub ==
    /\ HoldsTwo
    /\ Operate(SubImpls)

CallMul ==
    /\ HoldsTwo
    /\ Operate(MulImpls)

CallDiv ==
    /\ HoldsTwo
    /\ Operate(DivImpls)

\* `let b: U = last.into();` compiles where From<T> for U is written
CallInto ==
    /\ Len(bindings) >= 1
    /\ \E i \in FromImpls :
        /\ i.rhs = Last.ty
        /\ Bind(Binding(i.out, Apply(i, Last.val, Last.val), i.name))

NextAlgebra ==
    \/ Wrap
    \/ CallAdd
    \/ CallSub
    \/ CallMul
    \/ CallDiv
    \/ CallInto

(***************************************************************************)
(* Concurrent calls of tethers.rs.  The functions take their quantities by *)
(* value (the types are Copy) and the Material by shared reference; their  *)
(* bodies read the parameters and bind locals, and nothing else.           *)
(***************************************************************************)
ConcurrentFns == {"characteristic_velocity", "momentum_exchange_efficiency"}

\* the reals context c passes: every other context passes them swapped
ArgsOf(c) == IF c % 2 = 1 THEN <<x, y>> ELSE <<y, x>>

\* what fn returns for the arguments a and b, and the Material borrowed
Body(fn, material, a, b) ==
    IF fn = "characteristic_velocity" THEN characteristic_velocity(a, b)
    ELSE momentum_exchange_efficiency(material, a, b)

\* (a variant to test C21 against: one frame, that of the first context,
\* which the bodies of all contexts read)
FrameOfFirst(c) == frames[1]

\* the parameters and locals the body run by context c reads
Frame(c) == frames[c]

Step(c, frame) ==
    /\ frames' = [frames EXCEPT ![c] = frame]
    /\ UNCHANGED <<mat, x, y, foc, ell, ret, bindings>>

\* context c calls fn: the arguments are copied into its frame
Invoke(c) ==
    /\ frames[c].pc = "idle"
    /\ \E fn \in ConcurrentFns :
        Step(c, [frames[c] EXCEPT !.fn = fn, !.a = ArgsOf(c)[1],
                                  !.b = ArgsOf(c)[2], !.pc = "entered"])

\* the body runs to its return, on the frame of the context
Run(c) ==
    /\ frames[c].pc = "entered"
    /\ Step(c, [frames[c] EXCEPT
                    !.ret = Body(Frame(c).fn, mat, Frame(c).a, Frame(c).b),
                    !.pc = "returned"])

\* the caller takes the result and the frame is gone; it may call again, any
\* number of times
Collect(c) ==
    /\ frames[c].pc = "returned"
    /\ Step(c, Idle(TRUE))

NextConcurrent ==
    \E c \in Contexts :
        \/ Invoke(c)
        \/ Run(c)
        \/ Collect(c)

(***************************************************************************)
(* Calls of almagest-wasm/src/lib.rs, built for either target              *)
(***************************************************************************)
\* the JsTetherParams of the caller: the fields of its material and its reals
TetherParams ==
    JsTetherParams_new(mat.tensile_strength, mat.density, x, y)

CallCharacteristicVelocityJs ==
    /\ NotCalled
    /\ \E target \in Targets :
        Return("characteristic_velocity_js",
               characteristic_velocity_js(JsMaterial_new(x, y), target))

CallOrbitalVelocityJs ==
    /\ NotCalled
    /\ \E target \in Targets :
        Return("momentum_exchange_orbital_velocity_js",
               momentum_exchange_orbital_velocity_js(JsOrbitalParams_new(x, y),
                                                     target))

CallOrbitalPeriodJs ==
    /\ NotCalled
    /\ \E target \in Targets :
        Return("momentum_exchange_orbital_period_js",
               momentum_exchange_orbital_period_js(JsOrbitalParams_new(x, y),
                                                   target))

CallAngularVelocityJs ==
    /\ NotCalled
    /\ \E target \in Targets :
        Return("momentum_exchange_angular_velocity_js",
               momentum_exchange_angular_velocity_js(JsOrbitalParams_new(x, y),
                                                     target))

CallEfficiencyJs ==
    /\ NotCalled
    /\ \E target \in Targets :
        Return("momentum_exchange_efficiency_js",
               momentum_exchange_efficiency_js(TetherParams, target))

CallSpinRateJs ==
    /\ NotCalled
    /\ \E target \in Targets :
        Return("momentum_exchange_spin_rate_js",
               momentum_exchange_spin_rate_js(x, y, target))

NextWasm ==
    \/ CallCharacteristicVelocityJs
    \/ CallOrbitalVelocityJs
    \/ CallOrbitalPeriodJs
    \/ CallAngularVelocityJs
    \/ CallEfficiencyJs
    \/ CallSpinRateJs

(***************************************************************************)
(* Calls that compare two materials                                        *)
(***************************************************************************)
\* the material the caller compares mat with
Other == Material_new("other", x, y)

CallSpecificStrength ==
    /\ NotCalled
    /\ Return("Material::specific_strength", Ok(specific_strength(mat)))

CallSpecificStrengthOfOther ==
    /\ NotCalled
    /\ Return("Material::specific_strength of other", Ok(specific_strength(Other)))

CallForOther ==
    /\ NotCalled
    /\ Return("characteristic_velocity_for_material of other",
              characteristic_velocity_for_material(Other))

NextMaterials ==
    \/ CallSpecificStrength
    \/ CallSpecificStrengthOfOther
    \/ CallCharacteristicVelocityForMaterial
    \/ CallForOther

Next ==
    \/ NextTethers
    \/ NextKepler
    \/ NextAlgebra
    \/ NextConcurrent
    \/ NextWasm
    \/ NextMaterials

Spec == Init /\ [][Next]_vars

SpecTethers == InitTethers /\ [][NextTethers]_vars

SpecKepler == InitKepler /\ [][NextKepler]_vars

SpecAlgebra == InitAlgebra /\ [][NextAlgebra]_vars

SpecConcurrent == InitConcurrent /\ [][NextConcurrent]_vars

SpecWasm == InitWasm /\ [][NextWasm]_vars

SpecMaterials == InitMaterials /\ [][NextMaterials]_vars


(***************************************************************************)
(* What the specification says of these calls.                             *)
(***************************************************************************)

\* C1: no core operation aborts: whatever the input, Eccentricity::new,
\* from_periapsis_apoapsis, calc_ecc and the others return a result or a
\* recoverable failure, and never panic.
C1_NoCallPanics == ret.tag \in {"None", "Ok", "Err"}

\* C2: characteristic_velocity(sigma, rho) fails if and only if sigma <= 0 or
\* rho <= 0 or sigma > 200e9 or rho > 50000; every other input, the boundary
\* values 200e9 and 50000 among them, succeeds.
C2_CharacteristicVelocityFailsIff ==
    ret.fn = "characteristic_velocity" =>
        IF \/ F64Le(x, F64Zero)
           \/ F64Le(y, F64Zero)
           \/ F64Gt(x, F64Dec(200, 9))
           \/ F64Gt(y, F64FromInt(50000))
        THEN ret.tag = "Err"
        ELSE ret.tag = "Ok"

\* characteristic_velocity has accepted both boundary values at once
C2_BoundaryAccepted ==
    /\ ret.fn = "characteristic_velocity"
    /\ x = F64Dec(200, 9)
    /\ y = F64FromInt(50000)
    /\ ret.tag = "Ok"

\* C3: momentum_exchange_efficiency(material, r, mu) fails exactly when one
\* of its two sub-calls fails, and returns the first failing sub-call's
\* failure unchanged: the material's whenever the material is invalid (even
\* if r or mu are invalid too), otherwise the orbital velocity's.
C3_EfficiencyForwardsFirstFailure ==
    ret.fn = "momentum_exchange_efficiency" =>
        LET m == characteristic_velocity_for_material(mat)
            o == momentum_exchange_orbital_velocity(x, y)
        IN  /\ ret.tag = "Err" <=> (m.tag = "Err" \/ o.tag = "Err")
            /\ m.tag = "Err" => ret = Returned("momentum_exchange_efficiency", m)
            /\ m.tag = "Ok" /\ o.tag = "Err" =>
                   ret = Returned("momentum_exchange_efficiency", o)

\* both sub-calls fail and the material's reason is the one returned
C3_BothFailMaterialFirst ==
    /\ ret.fn = "momentum_exchange_efficiency"
    /\ characteristic_velocity_for_material(mat).tag = "Err"
    /\ momentum_exchange_orbital_velocity(x, y).tag = "Err"
    /\ ret.tag = "Err"
    /\ ret.err = characteristic_velocity_for_material(mat).err

\* C4: for every material and (r, mu) that pass validation,
\* momentum_exchange_efficiency returns min(1, v_char / v_orbital): the ratio
\* when the ratio is at most 1, and 1 when it is more; and the value returned
\* always lies in [0, 1].
C4_EfficiencyIsCappedRatio ==
    ( /\ ret.fn = "momentum_exchange_efficiency"
      /\ characteristic_velocity_for_material(mat).tag = "Ok"
      /\ momentum_exchange_orbital_velocity(x, y).tag = "Ok" ) =>
        LET ratio == F64Div(characteristic_velocity_for_material(mat).val,
                            momentum_exchange_orbital_velocity(x, y).val)
        IN  /\ ret.tag = "Ok"
            /\ F64Ge(ret.val, F64Zero) /\ F64Le(ret.val, F64One)
            /\ F64Le(ratio, F64One) => ret.val = ratio
            /\ F64Gt(ratio, F64One) => ret.val = F64One

\* the cap has acted: the ratio was above 1 and 1 was returned
C4_CapActs ==
    /\ ret.fn = "momentum_exchange_efficiency"
    /\ ret.tag = "Ok"
    /\ ret.val = F64One
    /\ F64Gt(F64Div(characteristic_velocity_for_material(mat).val,
                    momentum_exchange_orbital_velocity(x, y).val), F64One)

\* C5: Eccentricity::new(v) succeeds carrying v if v >= 0, and fails for
\* every other f64 v, that is whenever v >= 0 does not hold.
C5_EccentricityNewIffNonNegative ==
    ret.fn = "Eccentricity::new" =>
        IF F64Ge(x, F64Zero)
        THEN ret.tag = "Ok" /\ ret.val = x
        ELSE ret.tag = "Err"

\* Eccentricity::new has accepted a value v for which v >= 0 does not hold
C5_AcceptedNotNonNegative ==
    /\ ret.fn = "Eccentricity::new"
    /\ ret.tag = "Ok"
    /\ ~F64Ge(ret.val, F64Zero)

\* C6: every Eccentricity that exists after any sequence of public
\* operations satisfies value() >= 0: the one a call just returned, and the
\* one inside the Ellipse the caller holds.
C6_EveryEccentricityNonNegative ==
    /\ HoldsEccentricity => F64Ge(ret.val, F64Zero)
    /\ ell # <<>> => F64Ge(eccentricity(ell[1]), F64Zero)


(***************************************************************************)
(* Equality within relative tolerance 1e-6, decided exactly:               *)
(* |a - b| * 10^6 <= max(|a|, |b|).  Equal values (two zeros, the same     *)
(* infinity) are equal; a NaN equals nothing.                              *)
(***************************************************************************)
Million == <<16960, 30>>

\* p and q are |a| and |b| as naturals over one common unit
WithinMillionth(p, q) ==
    IF BCmp(p, q) >= 0 THEN BCmp(BMul(BSub(p, q), Million), p) <= 0
    ELSE BCmp(BMul(BSub(q, p), Million), q) <= 0

RelEq(a, b) ==
    IF IsNaN(a) \/ IsNaN(b) THEN FALSE
    ELSE IF F64Eq(a, b) THEN TRUE
    ELSE IF IsInf(a) \/ IsInf(b) \/ IsZero(a) \/ IsZero(b) THEN FALSE
    ELSE IF a.sgn # b.sgn THEN FALSE
    ELSE IF a.exp - b.exp > FarApart \/ b.exp - a.exp > FarApart THEN FALSE
    ELSE WithinMillionth(BShl(a.man, a.exp - Min(a.exp, b.exp)),
                         BShl(b.man, b.exp - Min(a.exp, b.exp)))

\* 2^k for MinExp + MantBits - 1 <= k <= MaxExp + MantBits - 1
F64Pow2(k) == Fin(0, <<0, 0, 0, 128>>, k - (MantBits - 1))

F64Abs(a) == IF IsNaN(a) THEN NaN ELSE [a EXCEPT !.sgn = 0]

\* the Ellipse the caller holds is the one
\* Ellipse::from_periapsis_apoapsis(x, y, foc) builds
BuiltFromApsides ==
    /\ from_periapsis_apoapsis(x, y, foc).tag = "Ok"
    /\ ell = <<from_periapsis_apoapsis(x, y, foc).val>>

\* what C7 says of the calls made with r_p = x and r_a = y
RoundTrips ==
    /\ ret.fn = "Ellipse::from_periapsis_apoapsis" => ret.tag = "Ok"
    /\ BuiltFromApsides =>
        /\ ret.fn = "Ellipse::periapsis" => RelEq(ret.val, x)
        /\ ret.fn = "Ellipse::apoapsis" => RelEq(ret.val, y)

\* C7 (as stated): for every r_p and r_a with 0 < r_p <= r_a, the ellipse
\* from_periapsis_apoapsis(r_p, r_a, f) builds has periapsis() equal to r_p
\* and apoapsis() equal to r_a, within relative tolerance 1e-6.
C7_RoundTripAsStated ==
    (F64Gt(x, F64Zero) /\ F64Le(x, y)) => RoundTrips

\* r_p is a normal number, r_a is at most 10^6 times r_p and at most 2^1023
ApsidesInRange ==
    /\ F64Ge(x, F64Pow2(-1022))
    /\ F64Le(x, y)
    /\ F64Le(y, F64Mul(F64Dec(1, 6), x))
    /\ F64Le(y, F64Pow2(1023))

\* C7 (amended): the same round trip, for r_p and r_a with
\* 2^-1022 <= r_p <= r_a, r_a <= 10^6 * r_p and r_a <= 2^1023.
C7_RoundTripInRange == ApsidesInRange => RoundTrips

\* apoapsis() has been called on an ellipse built from r_p < r_a in range,
\* and returned r_a within the tolerance but not r_a itself
C7_ApoapsisRoundTripped ==
    /\ ApsidesInRange
    /\ F64Lt(x, y)
    /\ BuiltFromApsides
    /\ ret.fn = "Ellipse::apoapsis"
    /\ RelEq(ret.val, y)
    /\ ~F64Eq(ret.val, y)

F64Square(a) == F64Mul(a, a)

\* focal_distance()^2 + semi_minor_axis()^2 == semi_major_axis()^2
Pythagorean(self) ==
    RelEq(F64Add(F64Square(focal_distance(self)), F64Square(semi_minor_axis(self))),
          F64Square(semi_major_axis(self)))

IsElliptic(self) ==
    F64Ge(eccentricity(self), F64Zero) /\ F64Lt(eccentricity(self), F64One)

\* C8 (as stated): for every ellipse with 0 <= e < 1,
\* focal_distance()^2 + semi_minor_axis()^2 equals semi_major_axis()^2 within
\* relative tolerance 1e-6.
C8_PythagoreanAsStated ==
    (ell # <<>> /\ IsElliptic(ell[1])) => Pythagorean(ell[1])

\* semi_major_axis() is zero, or its magnitude is between 2^-500 and 2^500
SemiMajorInRange(self) ==
    \/ IsZero(semi_major_axis(self))
    \/ /\ F64Ge(F64Abs(semi_major_axis(self)), F64Pow2(-500))
       /\ F64Le(F64Abs(semi_major_axis(self)), F64Pow2(500))

\* C8 (amended): the same identity, for every ellipse with 0 <= e < 1 whose
\* semi_major_axis() is zero or of a magnitude between 2^-500 and 2^500.
C8_PythagoreanInRange ==
    (ell # <<>> /\ IsElliptic(ell[1]) /\ SemiMajorInRange(ell[1])) =>
        Pythagorean(ell[1])

\* the caller holds an ellipse with 0 < e < 1 and a semi-major axis in range,
\* on which the identity holds within the tolerance but not exactly
C8_PythagoreanInexact ==
    /\ ell # <<>>
    /\ IsElliptic(ell[1])
    /\ F64Gt(eccentricity(ell[1]), F64Zero)
    /\ SemiMajorInRange(ell[1])
    /\ Pythagorean(ell[1])
    /\ ~F64Eq(F64Add(F64Square(focal_distance(ell[1])),
                     F64Square(semi_minor_axis(ell[1]))),
              F64Square(semi_major_axis(ell[1])))

OrbitalFns ==
    {"momentum_exchange_orbital_velocity", "momentum_exchange_orbital_period",
     "momentum_exchange_angular_velocity"}

\* C9: each of momentum_exchange_orbital_velocity, _orbital_period and
\* _angular_velocity, applied to (r, mu), fails with the radius reason when
\* r <= 0 whatever mu is, otherwise with the gravitational-parameter reason
\* when mu <= 0, and otherwise succeeds; so the three accept the same inputs.
C9_OrbitalValidationOrder ==
    ret.fn \in OrbitalFns =>
        /\ IF F64Le(x, F64Zero)
           THEN ret.tag = "Err" /\ ret.err = "Orbital radius must be positive"
           ELSE IF F64Le(y, F64Zero)
           THEN ret.tag = "Err" /\ ret.err = "Gravitational parameter must be positive"
           ELSE ret.tag = "Ok"
        /\ ret.tag = momentum_exchange_orbital_velocity(x, y).tag
        /\ ret.tag = momentum_exchange_orbital_period(x, y).tag
        /\ ret.tag = momentum_exchange_angular_velocity(x, y).tag

\* the period was asked with r <= 0 and mu <= 0, and the radius was blamed
C9_PeriodBlamesRadiusFirst ==
    /\ ret.fn = "momentum_exchange_orbital_period"
    /\ F64Le(x, F64Zero)
    /\ F64Le(y, F64Zero)
    /\ ret.tag = "Err"
    /\ ret.err = "Orbital radius must be positive"

\* C10: momentum_exchange_spin_rate(L, R) fails if and only if L <= 0 or
\* R <= 0, and succeeds for every strictly positive L and R however large
\* L / R is.
C10_SpinRateFailsIff ==
    ret.fn = "momentum_exchange_spin_rate" =>
        IF F64Le(x, F64Zero) \/ F64Le(y, F64Zero)
        THEN ret.tag = "Err"
        ELSE ret.tag = "Ok"

\* the spin rate was asked for a ratio L / R too large for an f64, and given
C10_HugeRatioAccepted ==
    /\ ret.fn = "momentum_exchange_spin_rate"
    /\ F64Gt(x, F64Zero)
    /\ F64Gt(y, F64Zero)
    /\ IsInf(F64Div(x, y))
    /\ ret.tag = "Ok"


(***************************************************************************)
(* Exact comparison of what a call returned with the real number the       *)
(* specification names.  A natural number n * 2^e is the pair <<n, e>>;    *)
(* products are exact, and sums and comparisons align the two exponents,   *)
(* which is done only between numbers of nearly the same size.             *)
(***************************************************************************)
\* |f| for a finite f
Scaled(f) == <<f.man, f.exp>>

SInt(n) == <<BFromInt(n), 0>>

SMul(a, b) == <<BMul(a[1], b[1]), a[2] + b[2]>>

\* the position above the highest bit of a; a is not zero
STop(a) == BBitLen(a[1]) + a[2]

SAligned(a, e) == BShl(a[1], a[2] - e)

SAdd(a, b) ==
    <<BAdd(SAligned(a, Min(a[2], b[2])), SAligned(b, Min(a[2], b[2]))),
      Min(a[2], b[2])>>

\* -1, 0, 1
SCmp(a, b) ==
    IF a[1] = <<>> THEN (IF b[1] = <<>> THEN 0 ELSE -1)
    ELSE IF b[1] = <<>> THEN 1
    ELSE IF STop(a) > STop(b) THEN 1
    ELSE IF STop(a) < STop(b) THEN -1
    ELSE BCmp(SAligned(a, Min(a[2], b[2])), SAligned(b, Min(a[2], b[2])))

\* |p - q| * t <= max(p, q), for naturals p and q
Within(p, q, t) ==
    IF BCmp(p, q) >= 0 THEN BCmp(BMul(BSub(p, q), t), p) <= 0
    ELSE BCmp(BMul(BSub(q, p), t), q) <= 0

\* a and b are equal within the relative tolerance 1 / t
SNear(a, b, t) ==
    IF a[1] = <<>> \/ b[1] = <<>> THEN a[1] = b[1]
    ELSE IF STop(a) > STop(b) + 1 \/ STop(b) > STop(a) + 1 THEN FALSE
    ELSE Within(SAligned(a, Min(a[2], b[2])), SAligned(b, Min(a[2], b[2])), t)

\* the relative tolerance 1e-12, as 10^12
Tol12 == BPow10(12)

\* a is finite and more than zero
IsPositive(a) == IsFinite(a) /\ ~IsZero(a) /\ a.sgn = 0

\* L / R >= 3 / 5, for positive L and R
RatioAtLeastThreeFifths(len, rad) ==
    SCmp(SMul(SInt(5), Scaled(len)), SMul(SInt(3), Scaled(rad))) >= 0

\* L / R is below 2^-100, so that 1 + 15 * L / R is within 2^-96 of 1
RatioNegligible(len, rad) == STop(Scaled(len)) + 100 < STop(Scaled(rad))

\* v is min(10, 1 + 15 * L / R) within relative tolerance 1e-12, and exactly
\* 10 when L / R >= 3 / 5, for positive L and R and a finite v >= 0
IsSpinOf(v, len, rad) ==
    IF RatioAtLeastThreeFifths(len, rad) THEN F64Eq(v, F64FromInt(10))
    ELSE IF RatioNegligible(len, rad) THEN SNear(Scaled(v), SInt(1), Tol12)
    ELSE SNear(SMul(Scaled(v), Scaled(rad)),
               SAdd(Scaled(rad), SMul(SInt(15), Scaled(len))), Tol12)

\* the same where L or R may be infinite: 15 * L / R is then infinite, when
\* only L is, or 0, when only R is; of two infinities the quotient is no number
IsSpinOfExtended(v, len, rad) ==
    IF IsInf(len) /\ IsInf(rad) THEN TRUE
    ELSE IF IsInf(len) THEN F64Eq(v, F64FromInt(10))
    ELSE IF IsInf(rad) THEN F64Eq(v, F64One)
    ELSE IsFinite(v) /\ v.sgn = 0 /\ IsSpinOf(v, len, rad)

\* v is 6 within relative tolerance 1e-12
IsSix(v) == IsFinite(v) /\ v.sgn = 0 /\ SNear(Scaled(v), SInt(6), Tol12)

\* L is R / 3 as the test computes it
IsMoravecCase(len, rad) == F64Eq(len, F64Div(rad, F64FromInt(3)))

\* C11 (as stated): for all L > 0 and R > 0, momentum_exchange_spin_rate(L, R)
\* equals min(10, 1 + 15 * L / R): it is 6 when L = R / 3, it is exactly 10
\* whenever L / R >= 3 / 5, and it always lies in the interval (1, 10].
C11_SpinRateAsStated ==
    ( /\ ret.fn = "momentum_exchange_spin_rate"
      /\ F64Gt(x, F64Zero)
      /\ F64Gt(y, F64Zero) ) =>
        /\ ret.tag = "Ok"
        /\ IsSpinOfExtended(ret.val, x, y)
        /\ IsMoravecCase(x, y) => IsSix(ret.val)
        /\ F64Gt(ret.val, F64One)
        /\ F64Le(ret.val, F64FromInt(10))

\* R is a normal number below 2^1023, so that neither R / 3 nor 2 * R is
\* rounded to another magnitude
RadiusInRange(rad) ==
    F64Ge(rad, F64Pow2(-1022)) /\ F64Lt(rad, F64Pow2(1023))

\* C11 (amended): for all L > 0 and all R with 2^-1022 <= R < 2^1023,
\* momentum_exchange_spin_rate(L, R) equals min(10, 1 + 15 * L / R) within
\* relative tolerance 1e-12: it is 6 within that tolerance when L = R / 3, it
\* is exactly 10 whenever L / R >= 3 / 5, and it always lies in [1, 10].
C11_SpinRateInRange ==
    ( /\ ret.fn = "momentum_exchange_spin_rate"
      /\ F64Gt(x, F64Zero)
      /\ RadiusInRange(y) ) =>
        /\ ret.tag = "Ok"
        /\ IsSpinOfExtended(ret.val, x, y)
        /\ IsMoravecCase(x, y) => IsSix(ret.val)
        /\ F64Ge(ret.val, F64One)
        /\ F64Le(ret.val, F64FromInt(10))

\* the Moravec reference case has been asked, and 6 returned
C11_MoravecCaseIsSix ==
    /\ ret.fn = "momentum_exchange_spin_rate"
    /\ y = EarthRadius
    /\ IsMoravecCase(x, y)
    /\ ret.tag = "Ok"
    /\ IsSix(ret.val)

\* momentum_exchange_spin_rate(L2, R) compared with what the call of
\* momentum_exchange_spin_rate(x, R) returned
SpinRateOfLonger(len2, rad) == momentum_exchange_spin_rate(len2, rad).val

IsRootOfTwiceQuotient(v, sigma, rho) ==
    /\ IsFinite(v)
    /\ F64Ge(v, F64Zero)
    /\ SNear(SMul(SMul(Scaled(v), Scaled(v)), Scaled(rho)),
             SMul(SInt(2), Scaled(sigma)), Tol12)

\* q * rho = sigma within relative tolerance 1e-12: q is the quotient, no
\* root taken
IsQuotient(q, sigma, rho) ==
    /\ IsFinite(q)
    /\ F64Ge(q, F64Zero)
    /\ SNear(SMul(Scaled(q), Scaled(rho)), Scaled(sigma), Tol12)

\* what C13 says of the call characteristic_velocity(x, y)
RootOfSpecificStrength ==
    /\ IsFinite(x) /\ IsFinite(y)
    /\ IsRootOfTwiceQuotient(ret.val, x, y)
    /\ ret.val = F64Sqrt(Pascals_div(Pascals_mul(x, F64Two), y))
    /\ IsQuotient(Pascals_div(x, y), x, y)

\* C13 (as stated): for every sigma and rho that pass validation,
\* characteristic_velocity(sigma, rho) returns v with v >= 0 and
\* v^2 = 2 * sigma / rho within relative tolerance 1e-12; the square root is
\* applied by characteristic_velocity itself, and the pressure / density
\* operator performs only the division.
C13_RootAsStated ==
    (ret.fn = "characteristic_velocity" /\ ret.tag = "Ok") =>
        RootOfSpecificStrength

\* sigma and rho are within the bounds of the validation and large enough for
\* 2 * sigma / rho to be a normal number
StrengthAndDensityInRange ==
    /\ F64Ge(x, F64Pow2(-1000)) /\ F64Le(x, MaxTensileStrength)
    /\ F64Ge(y, F64Pow2(-900)) /\ F64Le(y, MaxDensity)

\* C13 (amended): the same for every sigma and rho with
\* 2^-1000 <= sigma <= 200e9 and 2^-900 <= rho <= 50000.
C13_RootInRange ==
    (ret.fn = "characteristic_velocity" /\ StrengthAndDensityInRange) =>
        ret.tag = "Ok" /\ RootOfSpecificStrength

\* characteristic_velocity has returned a root whose square, computed in f64,
\* is not the quotient the operator gave
C13_RootInexact ==
    /\ ret.fn = "characteristic_velocity"
    /\ StrengthAndDensityInRange
    /\ ret.tag = "Ok"
    /\ RootOfSpecificStrength
    /\ ~F64Eq(F64Mul(ret.val, ret.val), Pascals_div(Pascals_mul(x, F64Two), y))


\* a and b are equal within relative tolerance 1e-12; equal values (two
\* zeros, the same infinity) are equal, and a NaN equals nothing
Near12(a, b) ==
    IF IsNaN(a) \/ IsNaN(b) THEN FALSE
    ELSE IF F64Eq(a, b) THEN TRUE
    ELSE IF IsInf(a) \/ IsInf(b) \/ IsZero(a) \/ IsZero(b) THEN FALSE
    ELSE IF a.sgn # b.sgn THEN FALSE
    ELSE SNear(Scaled(a), Scaled(b), Tol12)

\* a and b are the same value: equal, or both not a number
SameValue(a, b) == (IsNaN(a) /\ IsNaN(b)) \/ F64Eq(a, b)

\* r_p / (1 - e), evaluated in f64
SemiMajorFormula(self) ==
    F64Div(periapsis(self), F64Sub(F64One, eccentricity(self)))

\* what C14 says of the Ellipse the caller holds and of the call just made on
\* it: each quantity is the value of its formula evaluated in f64 (not a
\* number where the periapsis is not one), and the sum, taken in f64, is that
\* value or within relative tolerance 1e-12 of it
DerivedQuantities(self) ==
    /\ ret.fn = "Ellipse::semi_major_axis" =>
           SameValue(ret.val, SemiMajorFormula(self))
    /\ ret.fn = "Ellipse::apoapsis" =>
           SameValue(ret.val, F64Mul(SemiMajorFormula(self),
                                     F64Add(F64One, eccentricity(self))))
    /\ ret.fn = "Ellipse::focal_distance" =>
           SameValue(ret.val, F64Mul(SemiMajorFormula(self), eccentricity(self)))
    /\ \/ SameValue(F64Add(periapsis(self), apoapsis(self)),
                    F64Mul(F64Two, semi_major_axis(self)))
       \/ Near12(F64Add(periapsis(self), apoapsis(self)),
                 F64Mul(F64Two, semi_major_axis(self)))

IsParabolic(self) == F64Eq(eccentricity(self), F64One)

\* what C15 says of the Ellipse the caller holds and of the call just made on
\* it: both methods return an infinite length, as an ordinary value
InfiniteAxes(self) ==
    /\ IsInf(semi_major_axis(self))
    /\ IsInf(apoapsis(self))
    /\ ret.fn = "Ellipse::semi_major_axis" => ret.tag = "Ok" /\ IsInf(ret.val)
    /\ ret.fn = "Ellipse::apoapsis" => ret.tag = "Ok" /\ IsInf(ret.val)

\* C15 (as stated): for every ellipse with eccentricity exactly 1,
\* semi_major_axis() and apoapsis() both return an infinite length, and
\* return it as an ordinary value: no failure is signalled, nothing aborts.
C15_ParabolicAsStated ==
    (ell # <<>> /\ IsParabolic(ell[1])) => InfiniteAxes(ell[1])

\* the periapsis is a number other than zero
PeriapsisNonZero(self) == ~IsNaN(periapsis(self)) /\ ~IsZero(periapsis(self))

\* C15 (amended): the same for every ellipse with eccentricity exactly 1
\* whose periapsis is a number other than zero.
C15_ParabolicNonZero ==
    (ell # <<>> /\ IsParabolic(ell[1]) /\ PeriapsisNonZero(ell[1])) =>
        InfiniteAxes(ell[1])

\* apoapsis() was called on an ellipse with e = 1 and a finite periapsis
\* more than 0, and returned +inf
C15_ApoapsisInfinite ==
    /\ ell # <<>>
    /\ IsParabolic(ell[1])
    /\ IsPositive(periapsis(ell[1]))
    /\ ret.fn = "Ellipse::apoapsis"
    /\ ret.tag = "Ok"
    /\ ret.val = Inf(0)


(***************************************************************************)
(* Equality "within 1e-10", as assert_relative_eq!(a, b, epsilon = 1e-10)   *)
(* of the tests and more: two values are within 1e-10 when they are equal,  *)
(* or differ by at most 1e-10, or by at most 1e-10 of the larger.  A NaN is *)
(* within 1e-10 of nothing.  The values compared here are never negative.   *)
(***************************************************************************)
Tol10 == BPow10(10)

BDiff(p, q) == IF BCmp(p, q) >= 0 THEN BSub(p, q) ELSE BSub(q, p)

\* |a - b| <= 1e-10 for a and b below 1, both n * 2^e with e < 0
AbsNear10(a, b) ==
    /\ a.exp < 0 /\ b.exp < 0
    /\ STop(Scaled(a)) <= 0 /\ STop(Scaled(b)) <= 0
    /\ BCmp(BMul(BDiff(SAligned(Scaled(a), Min(a.exp, b.exp)),
                       SAligned(Scaled(b), Min(a.exp, b.exp))), Tol10),
            BShl(<<1>>, 0 - Min(a.exp, b.exp))) <= 0

\* a and b are equal within the relative tolerance 1e-10
RelNear10(a, b) ==
    IF IsNaN(a) \/ IsNaN(b) THEN FALSE
    ELSE IF F64Eq(a, b) THEN TRUE
    ELSE IF IsInf(a) \/ IsInf(b) \/ IsZero(a) \/ IsZero(b) THEN FALSE
    ELSE IF a.sgn # b.sgn THEN FALSE
    ELSE SNear(Scaled(a), Scaled(b), Tol10)

Near10(a, b) ==
    IF IsNaN(a) \/ IsNaN(b) THEN FALSE
    ELSE IF F64Eq(a, b) THEN TRUE
    ELSE IF IsInf(a) \/ IsInf(b) THEN FALSE
    ELSE AbsNear10(a, b) \/ RelNear10(a, b)

\* 2^-150 <= a <= 2^150
IsModerate(a) == F64Ge(a, F64Pow2(-150)) /\ F64Le(a, F64Pow2(150))

\* libm::pow(period2.0 / period1.0, 2.0), as the test computes it
PeriodRatioSquared(period1, period2) ==
    F64Mul(F64Div(period2, period1), F64Div(period2, period1))

\* libm::pow(radius2.0 / radius1.0, 3.0), as the test computes it
RadiusRatioCubed(radius1, radius2) == Pow3(F64Div(radius2, radius1))

\* the period of the orbit of radius r2 about the same body
PeriodAt(radius2, mu) == momentum_exchange_orbital_period(radius2, mu).val

\* C16 (as stated): for a fixed mu > 0 and any two radii r1, r2 > 0, all
\* finite, (period(r2, mu) / period(r1, mu))^2 equals (r2 / r1)^3 within
\* 1e-10.
C16_KeplerThirdLawAsStated ==
    ( /\ ret.fn = "momentum_exchange_orbital_period"
      /\ IsPositive(x)
      /\ IsPositive(y) ) =>
        /\ ret.tag = "Ok"
        /\ \A radius2 \in TetherSamples :
               IsPositive(radius2) =>
                   Near10(PeriodRatioSquared(ret.val, PeriodAt(radius2, y)),
                          RadiusRatioCubed(x, radius2))

\* C16 (amended): for a fixed mu and any two radii r1, r2, all three between
\* 2^-150 and 2^150, (period(r2, mu) / period(r1, mu))^2 equals (r2 / r1)^3
\* within relative tolerance 1e-10.
C16_KeplerThirdLawModerate ==
    ( /\ ret.fn = "momentum_exchange_orbital_period"
      /\ IsModerate(x)
      /\ IsModerate(y) ) =>
        /\ ret.tag = "Ok"
        /\ \A radius2 \in TetherSamples :
               IsModerate(radius2) =>
                   RelNear10(PeriodRatioSquared(ret.val, PeriodAt(radius2, y)),
                             RadiusRatioCubed(x, radius2))

\* the period was asked for a moderate radius and mu, and for another
\* moderate radius the two sides of the law, computed in f64, differ
C16_LawInexact ==
    /\ ret.fn = "momentum_exchange_orbital_period"
    /\ IsModerate(x)
    /\ IsModerate(y)
    /\ ret.tag = "Ok"
    /\ \E radius2 \in TetherSamples :
           /\ IsModerate(radius2)
           /\ ~F64Eq(radius2, x)
           /\ RelNear10(PeriodRatioSquared(ret.val, PeriodAt(radius2, y)),
                        RadiusRatioCubed(x, radius2))
           /\ ~F64Eq(PeriodRatioSquared(ret.val, PeriodAt(radius2, y)),
                     RadiusRatioCubed(x, radius2))

\* v = omega * r and v^2 = mu / r, computed in f64 as the test computes them
VelocityOf(radius, mu) == momentum_exchange_orbital_velocity(radius, mu).val

AngularVelocityOf(radius, mu) == momentum_exchange_angular_velocity(radius, mu).val

\* C17 (as stated): for all finite r > 0 and mu > 0,
\* momentum_exchange_orbital_velocity(r, mu) equals
\* momentum_exchange_angular_velocity(r, mu) * r, and its square equals
\* mu / r, both within 1e-10.
C17_CircularOrbitAsStated ==
    ( /\ ret.fn \in {"momentum_exchange_orbital_velocity",
                     "momentum_exchange_angular_velocity"}
      /\ IsPositive(x)
      /\ IsPositive(y) ) =>
        /\ ret.tag = "Ok"
        /\ ret.fn = "momentum_exchange_orbital_velocity" =>
            /\ Near10(ret.val, F64Mul(AngularVelocityOf(x, y), x))
            /\ Near10(F64Mul(ret.val, ret.val), F64Div(y, x))
        /\ ret.fn = "momentum_exchange_angular_velocity" =>
            Near10(VelocityOf(x, y), F64Mul(ret.val, x))

\* C17 (amended): the same for all r and mu between 2^-150 and 2^150, both
\* within relative tolerance 1e-10.
C17_CircularOrbitModerate ==
    ( /\ ret.fn \in {"momentum_exchange_orbital_velocity",
                     "momentum_exchange_angular_velocity"}
      /\ IsModerate(x)
      /\ IsModerate(y) ) =>
        /\ ret.tag = "Ok"
        /\ ret.fn = "momentum_exchange_orbital_velocity" =>
            /\ RelNear10(ret.val, F64Mul(AngularVelocityOf(x, y), x))
            /\ RelNear10(F64Mul(ret.val, ret.val), F64Div(y, x))
        /\ ret.fn = "momentum_exchange_angular_velocity" =>
            RelNear10(VelocityOf(x, y), F64Mul(ret.val, x))

\* the angular velocity was asked for a moderate r and mu, and times r it is
\* the orbital velocity within the tolerance, but not the orbital velocity
C17_AngularTimesRadiusInexact ==
    /\ ret.fn = "momentum_exchange_angular_velocity"
    /\ IsModerate(x)
    /\ IsModerate(y)
    /\ ret.tag = "Ok"
    /\ RelNear10(VelocityOf(x, y), F64Mul(ret.val, x))
    /\ ~F64Eq(VelocityOf(x, y), F64Mul(ret.val, x))

(***************************************************************************)
(* C18: meters <-> kilometers round trips                                  *)
(***************************************************************************)
\* binding i was converted by impl there, and the result back by impl back
ConvertedBack(i, there, back) ==
    /\ i + 2 <= Len(bindings)
    /\ bindings[i + 1].by = there
    /\ bindings[i + 2].by = back

MetersRoundTrip(i) ==
    ConvertedBack(i, "From<Meters> for Kilometers", "From<Kilometers> for Meters")

KilometersRoundTrip(i) ==
    ConvertedBack(i, "From<Kilometers> for Meters", "From<Meters> for Kilometers")

\* the round trip from binding i gave its value back: the same value, or one
\* within relative tolerance 1e-12 of it
Reproduced(i) ==
    \/ SameValue(bindings[i + 2].val, bindings[i].val)
    \/ Near12(bindings[i + 2].val, bindings[i].val)

\* Meters(1000.0) was converted to Kilometers at binding i + 1
ThousandMetersConverted(i) ==
    /\ i + 1 <= Len(bindings)
    /\ bindings[i].ty = "Meters"
    /\ F64Eq(bindings[i].val, F64FromInt(1000))
    /\ bindings[i + 1].by = "From<Meters> for Kilometers"

\* C18 (as stated): converting any Meters value to Kilometers and back gives
\* the original value, converting any Kilometers value to Meters and back
\* gives the original value (within floating-point precision), and
\* Meters(1000) converts to exactly Kilometers(1).
C18_RoundTripAsStated ==
    \A i \in 1..Len(bindings) :
        /\ MetersRoundTrip(i) => Reproduced(i)
        /\ KilometersRoundTrip(i) => Reproduced(i)
        /\ ThousandMetersConverted(i) => F64Eq(bindings[i + 1].val, F64One)

\* a Meters value whose thousandth is a normal number or zero
MetersInRange(m) ==
    IsFinite(m) /\ (IsZero(m) \/ F64Ge(F64Abs(m), F64Pow2(-1000)))

\* a Kilometers value whose thousandfold is finite
KilometersInRange(km) == IsFinite(km) /\ F64Le(F64Abs(km), F64Pow2(1000))

\* C18 (amended): a Meters value that is zero or of magnitude 2^-1000 at
\* least, converted to Kilometers and back, and a Kilometers value of
\* magnitude 2^1000 at most, converted to Meters and back, give the original
\* value within relative tolerance 1e-12; Meters(1000) converts to exactly
\* Kilometers(1).
C18_RoundTripInRange ==
    \A i \in 1..Len(bindings) :
        /\ (MetersRoundTrip(i) /\ MetersInRange(bindings[i].val)) =>
               Near12(bindings[i + 2].val, bindings[i].val)
        /\ (KilometersRoundTrip(i) /\ KilometersInRange(bindings[i].val)) =>
               Near12(bindings[i + 2].val, bindings[i].val)
        /\ ThousandMetersConverted(i) => F64Eq(bindings[i + 1].val, F64One)

\* a Meters value in range went to Kilometers and back and came out within
\* the tolerance, but not the same
C18_RoundTripInexact ==
    /\ MetersRoundTrip(1)
    /\ MetersInRange(bindings[1].val)
    /\ Near12(bindings[3].val, bindings[1].val)
    /\ ~F64Eq(bindings[3].val, bindings[1].val)

(***************************************************************************)
(* C19: scaling by a Real on either side                                   *)
(***************************************************************************)
\* binding i, a quantity, was scaled by the Real bound after it: q * k
ScaledOnTheRight(i) ==
    /\ i + 2 <= Len(bindings)
    /\ bindings[i].ty \in QuantityTypes
    /\ bindings[i + 1].ty = "Real"
    /\ \E m \in MulImpls : m.rhs = "Real" /\ bindings[i + 2].by = m.name

\* k * q is written for the type of q, gives that type, and on the Real k and
\* the quantity q gives the value v
ScalesOnTheLeft(k, qty, v) ==
    \E m \in MulImpls :
        /\ m.self = "Real"
        /\ m.rhs = qty.ty
        /\ m.out = qty.ty
        /\ SameValue(Apply(m, k.val, qty.val), v)

\* C19 (as stated): wherever a quantity can be scaled by a Real as q * k, the
\* result has the type of q, and k * q exists as well, with the same type
\* and the same value.
C19_ScalingOnEitherSide ==
    \A i \in 1..Len(bindings) :
        ScaledOnTheRight(i) =>
            /\ bindings[i + 2].ty = bindings[i].ty
            /\ ScalesOnTheLeft(bindings[i + 1], bindings[i], bindings[i + 2].val)

(***************************************************************************)
(* C20: the operators between quantities are a closed table                *)
(***************************************************************************)
\* the physical dimension a type measures; a plain Real has none
Dimension(ty) ==
    CASE ty \in {"Centimeters", "Meters", "Kilometers"} -> "length"
      [] ty \in {"CentimetersSquared", "MetersSquared"} -> "area"
      [] ty = "MetersCubed" -> "volume"
      [] ty \in {"Pascals", "NewtonsPerMetersSquared"} -> "pressure"
      [] ty = "Kilograms" -> "mass"
      [] ty = "KilogramsPerMetersCubed" -> "density"
      [] ty = "MetersCubedByKilogramSecondsSquared" -> "gravitational constant"
      [] ty = "MetersPerSecond" -> "velocity"
      [] ty = "MetersPerSecondSquared" -> "acceleration"
      [] ty = "Seconds" -> "time"
      [] ty = "RadiansPerSecond" -> "angular velocity"
      [] ty = "Real" -> "none"

\* the combinations of two dimensions the table lists, with their results
ListedCombinations ==
    { <<"Mul", "length", "length", "area">>,
      <<"Mul", "length", "area", "volume">>,
      <<"Div", "area", "length", "length">>,
      <<"Div", "pressure", "density", "velocity">> }

\* the trait of the impl that made binding c
TraitOf(c) == (CHOOSE i \in Impls : i.name = c.by).trait

\* binding i + 2 was made by an operator on the two quantities bound before
\* it, neither of them a plain Real
CombinesQuantities(i) ==
    /\ i + 2 <= Len(bindings)
    /\ bindings[i + 2].by # ""
    /\ TraitOf(bindings[i + 2]) # "From"
    /\ bindings[i].ty \in QuantityTypes
    /\ bindings[i + 1].ty \in QuantityTypes

\* what an operator on quantities a and b that gave c may be: a sum or a
\* difference within one dimension, a quotient within one dimension that is
\* a plain Real, or one of the listed combinations
InTable(op, a, b, c) ==
    /\ Dimension(a.ty) # Dimension(b.ty) =>
           <<op, Dimension(a.ty), Dimension(b.ty), Dimension(c.ty)>>
               \in ListedCombinations
    /\ (Dimension(a.ty) = Dimension(b.ty) /\ op = "Mul") =>
           <<op, Dimension(a.ty), Dimension(b.ty), Dimension(c.ty)>>
               \in ListedCombinations
    /\ (Dimension(a.ty) = Dimension(b.ty) /\ op = "Div") => c.ty = "Real"

\* C20: every operator that combines two quantities of different dimensions
\* is length * length -> area, length * area -> volume, area / length ->
\* length or pressure / density -> velocity; a division within one dimension
\* gives a plain Real; and whatever gives a volume is length * area.
C20_ClosedTable ==
    \A i \in 1..Len(bindings) :
        /\ CombinesQuantities(i) =>
               InTable(TraitOf(bindings[i + 2]), bindings[i], bindings[i + 1],
                       bindings[i + 2])
        /\ (bindings[i].by # "" /\ Dimension(bindings[i].ty) = "volume") =>
               /\ bindings[i].by = "Mul<MetersSquared> for Meters"
               /\ Dimension(bindings[i - 2].ty) = "length"
               /\ Dimension(bindings[i - 1].ty) = "area"

\* a length was multiplied by an area, and the product is a volume of the
\* product of their values
C20_VolumeFromLengthAndArea ==
    /\ Len(bindings) >= 3
    /\ bindings[1].ty = "Meters"
    /\ bindings[2].ty = "MetersSquared"
    /\ bindings[3].by = "Mul<MetersSquared> for Meters"
    /\ bindings[3].ty = "MetersCubed"
    /\ F64Eq(bindings[3].val, F64Mul(bindings[1].val, bindings[2].val))

(***************************************************************************)
(* C21: calls made at once return what they return alone                   *)
(***************************************************************************)
\* what context c has got from its calls so far is what the same function
\* returns for the same arguments when it is called alone
ReturnsAsAlone(c) ==
    frames[c].pc = "returned" =>
        frames[c].ret = Body(frames[c].fn, mat, ArgsOf(c)[1], ArgsOf(c)[2])

Wrapped(fn) ==
    CASE fn = "characteristic_velocity_js" -> characteristic_velocity(x, y)
      [] fn = "momentum_exchange_orbital_velocity_js" ->
             momentum_exchange_orbital_velocity(x, y)
      [] fn = "momentum_exchange_orbital_period_js" ->
             momentum_exchange_orbital_period(x, y)
      [] fn = "momentum_exchange_angular_velocity_js" ->
             momentum_exchange_angular_velocity(x, y)
      [] fn = "momentum_exchange_efficiency_js" ->
             momentum_exchange_efficiency(mat, x, y)
      [] fn = "momentum_exchange_spin_rate_js" ->
             momentum_exchange_spin_rate(x, y)

\* the wrapper returned Ok of the very f64 of core's Ok, and Err exactly when
\* core is an Err
AgreesWith(core) ==
    /\ core.tag = "Ok" => (ret.tag = "Ok" /\ ret.val = core.val)
    /\ ret.tag = "Err" <=> core.tag = "Err"

\* C22: each wrapper returns Ok with exactly the result of the function it
\* wraps when that function succeeds, and Err when and only when it fails,
\* on every input.
C22_WrappersAgree == ret.tag # "None" => AgreesWith(Wrapped(ret.fn))

\* the efficiency wrapper built a material that fails validation and returned
\* an Err; the function behind it fails on the same material
C22_FailurePropagated ==
    /\ ret.fn = "momentum_exchange_efficiency_js"
    /\ ret.tag = "Err"
    /\ momentum_exchange_efficiency(mat, x, y).tag = "Err"
    /\ characteristic_velocity_for_material(mat).tag = "Err"

(***************************************************************************)
(* C23: the free helpers calc_2a, calc_2c and calc_ecc                     *)
(***************************************************************************)
\* |a - b|, exactly
SDiff(a, b) ==
    <<BDiff(SAligned(a, Min(a[2], b[2])), SAligned(b, Min(a[2], b[2]))),
      Min(a[2], b[2])>>

\* v is r + r' within relative tolerance 1e-12, for positive r and r'
IsSumOf(v, r, rp) ==
    IsPositive(v) /\ SNear(Scaled(v), SAdd(Scaled(r), Scaled(rp)), Tol12)

\* v is |r - r'| within relative tolerance 1e-12, and no negative number
IsDistanceOf(v, r, rp) ==
    /\ IsFinite(v)
    /\ v.sgn = 0
    /\ SNear(Scaled(v), SDiff(Scaled(r), Scaled(rp)), Tol12)

\* e is |r - r'| / (r + r') within relative tolerance 1e-12:
\* e * (r + r') against |r - r'|
IsEccOf(e, r, rp) ==
    /\ IsFinite(e)
    /\ e.sgn = 0
    /\ SNear(SMul(Scaled(e), SAdd(Scaled(r), Scaled(rp))),
             SDiff(Scaled(r), Scaled(rp)), Tol12)

\* what the helpers returned for r_f = x and r_f' = y, with the upper end of
\* the range of calc_ecc open or closed
HelpersReconstruct(open) ==
    /\ ret.tag = "Ok"
    /\ ret.fn = "calc_2a" => IsSumOf(ret.val, x, y)
    /\ ret.fn = "calc_2c" =>
           /\ IsDistanceOf(ret.val, x, y)
           /\ F64Eq(ret.val, calc_2c(y, x))
    /\ ret.fn = "calc_ecc" =>
           /\ IsEccOf(ret.val, x, y)
           /\ calc_ecc(y, x) = Ok(ret.val)
           /\ F64Ge(ret.val, F64Zero)
           /\ IF open THEN F64Lt(ret.val, F64One) ELSE F64Le(ret.val, F64One)

HelperCalled == ret.fn \in {"calc_2a", "calc_2c", "calc_ecc"}

\* C23 (as stated): for all positive r_f and r_f', calc_2a is r_f + r_f',
\* calc_2c is |r_f - r_f'|, not negative and the same with its arguments
\* exchanged, and calc_ecc is |r_f - r_f'| / (r_f + r_f'), the same with its
\* arguments exchanged, and in [0, 1).
C23_HelpersAsStated ==
    (HelperCalled /\ IsPositive(x) /\ IsPositive(y)) => HelpersReconstruct(TRUE)

\* both focal radii between 2^-1000 and 2^1000
FocalRadiiInRange(r, rp) ==
    /\ F64Ge(r, F64Pow2(-1000)) /\ F64Le(r, F64Pow2(1000))
    /\ F64Ge(rp, F64Pow2(-1000)) /\ F64Le(rp, F64Pow2(1000))

\* C23 (amended): the same for r_f and r_f' between 2^-1000 and 2^1000, the
\* equalities within relative tolerance 1e-12, and calc_ecc in [0, 1]: it is
\* 1 when one radius is lost in the sum with the other.
C23_HelpersInRange ==
    (HelperCalled /\ FocalRadiiInRange(x, y)) => HelpersReconstruct(FALSE)

\* calc_ecc was called with two different radii in range, and the
\* eccentricity it gave is strictly between 0 and 1
C23_EccentricityBetween ==
    /\ ret.fn = "calc_ecc"
    /\ FocalRadiiInRange(x, y)
    /\ ret.tag = "Ok"
    /\ IsEccOf(ret.val, x, y)
    /\ F64Gt(ret.val, F64Zero)
    /\ F64Lt(ret.val, F64One)

(***************************************************************************)
(* C24: the one reason characteristic_velocity reports                     *)
(***************************************************************************)
StrengthNotPositive == F64Le(x, F64Zero)

DensityNotPositive == F64Le(y, F64Zero)

StrengthOverLimit == F64Gt(x, F64Dec(200, 9))

DensityOverLimit == F64Gt(y, F64FromInt(50000))

Reasons ==
    { "Tensile strength must be positive",
      "Density must be positive",
      "Tensile strength exceeds known material limits",
      "Density exceeds reasonable material limits" }

\* the call failed with this reason alone
Reports(reason) == ret.tag = "Err" /\ ret.err = reason

\* C24: characteristic_velocity(sigma, rho) reports the reason of the first
\* check that fails, in the order sigma <= 0, rho <= 0, sigma > 200e9,
\* rho > 50000, and no other reason.
C24_FirstFailedCheckReported ==
    ret.fn = "characteristic_velocity" =>
        /\ ret.tag = "Err" => ret.err \in Reasons
        /\ StrengthNotPositive => Reports("Tensile strength must be positive")
        /\ (~StrengthNotPositive /\ DensityNotPositive) =>
               Reports("Density must be positive")
        /\ (~StrengthNotPositive /\ ~DensityNotPositive /\ StrengthOverLimit) =>
               Reports("Tensile strength exceeds known material limits")
        /\ ( /\ ~StrengthNotPositive /\ ~DensityNotPositive
             /\ ~StrengthOverLimit /\ DensityOverLimit ) =>
               Reports("Density exceeds reasonable material limits")

\* a strength over its limit was passed with a density that is not positive,
\* and the reason reported is that of the density
C24_EarlierCheckWins ==
    /\ ret.fn = "characteristic_velocity"
    /\ StrengthOverLimit
    /\ DensityNotPositive
    /\ Reports("Density must be positive")

(***************************************************************************)
(* C25: the reason Eccentricity::new gives for a negative value            *)
(***************************************************************************)
\* C25 (as stated): given a negative value, Eccentricity::new fails, and the
\* failure carries the reason "value must be non-negative".
C25_NegativeReasonAsStated ==
    (ret.fn = "Eccentricity::new" /\ F64Lt(x, F64Zero)) =>
        /\ ret.tag = "Err"
        /\ ret.err = "value must be non-negative"

(***************************************************************************)
(* C26: focal_distance() against the distance between the foci             *)
(***************************************************************************)
\* focal_distance() was called on the ellipse built from the apsides x and y,
\* two lengths with 0 < x <= y
FocalDistanceOfApsides ==
    /\ IsPositive(x)
    /\ IsPositive(y)
    /\ F64Le(x, y)
    /\ BuiltFromApsides
    /\ ret.fn = "Ellipse::focal_distance"

\* C26 (as stated): focal_distance() is the distance between the two foci,
\* twice c = e * semi_major_axis, and for the ellipse built from r_p and r_a
\* it equals calc_2c(r_p, r_a) (here within relative tolerance 1e-12).
C26_FocalDistanceIsTwiceC ==
    FocalDistanceOfApsides =>
        /\ Near12(F64Div(ret.val, F64Two),
                  F64Mul(eccentricity(ell[1]), semi_major_axis(ell[1])))
        /\ Near12(ret.val, calc_2c(x, y))

(***************************************************************************)
(* C27: the derived lengths of an ellipse with 0 <= e < 1 and r_p > 0      *)
(***************************************************************************)
\* semi_major_axis() and semi_minor_axis() are strictly positive and finite,
\* apoapsis() is finite and no smaller than periapsis()
AxesPositive(self) ==
    /\ IsPositive(semi_major_axis(self))
    /\ IsPositive(semi_minor_axis(self))
    /\ IsFinite(apoapsis(self))
    /\ F64Ge(apoapsis(self), periapsis(self))

\* the circle: a = b = r_a = r_p and focal_distance() = 0
IsCircle(self) ==
    /\ F64Eq(semi_major_axis(self), periapsis(self))
    /\ F64Eq(semi_minor_axis(self), periapsis(self))
    /\ F64Eq(apoapsis(self), periapsis(self))
    /\ IsZero(focal_distance(self))

\* C27 (as stated): for every ellipse with 0 <= e < 1 and r_p > 0 the two
\* semi-axes are strictly positive and finite, apoapsis() is finite and at
\* least periapsis(), with equality exactly when e = 0, and then a = b = r_a =
\* r_p and focal_distance() = 0.
C27_AxesAsStated ==
    (ell # <<>> /\ IsElliptic(ell[1]) /\ F64Gt(periapsis(ell[1]), F64Zero)) =>
        /\ AxesPositive(ell[1])
        /\ F64Eq(apoapsis(ell[1]), periapsis(ell[1])) <=> IsZero(eccentricity(ell[1]))
        /\ IsZero(eccentricity(ell[1])) => IsCircle(ell[1])

\* r_p is between 2^-1000 and 2^900
PeriapsisInRange(self) ==
    /\ F64Ge(periapsis(self), F64Pow2(-1000))
    /\ F64Le(periapsis(self), F64Pow2(900))

\* C27 (amended): for every ellipse with 0 <= e < 1 and r_p between 2^-1000
\* and 2^900 the two semi-axes are strictly positive and finite and apoapsis()
\* is finite and at least periapsis(); with e = 0 they are equal, a = b = r_a =
\* r_p and focal_distance() = 0; with e >= 2^-52 apoapsis() is strictly greater.
C27_AxesInRange ==
    (ell # <<>> /\ IsElliptic(ell[1]) /\ PeriapsisInRange(ell[1])) =>
        /\ AxesPositive(ell[1])
        /\ IsZero(eccentricity(ell[1])) => IsCircle(ell[1])
        /\ F64Ge(eccentricity(ell[1]), F64Pow2(-52)) =>
               F64Gt(apoapsis(ell[1]), periapsis(ell[1]))

\* apoapsis() was called on an ellipse with 0 < e < 2^-52 and r_p in range,
\* and returned the periapsis
C27_TinyEccentricityLooksCircular ==
    /\ ell # <<>>
    /\ IsElliptic(ell[1])
    /\ PeriapsisInRange(ell[1])
    /\ F64Gt(eccentricity(ell[1]), F64Zero)
    /\ F64Lt(eccentricity(ell[1]), F64Pow2(-52))
    /\ ret.fn = "Ellipse::apoapsis"
    /\ ret.tag = "Ok"
    /\ F64Eq(ret.val, periapsis(ell[1]))

(***************************************************************************)
(* C28: the eccentricity from the apsides against calc_ecc                 *)
(***************************************************************************)
\* (r_a - r_p) / (r_a + r_p)
EccOfApsides(r_p, r_a) == F64Div(F64Sub(r_a, r_p), F64Add(r_a, r_p))

\* calc_ecc(r_f, r_f') returned the Eccentricity e
CalcEccIs(r_f, r_f_p, e) ==
    calc_ecc(r_f, r_f_p).tag = "Ok" /\ F64Eq(calc_ecc(r_f, r_f_p).val, e)

\* eccentricity() of the ellipse built from x and y returned calc_ecc(x, y),
\* calc_ecc(y, x) and (y - x) / (y + x), whichever focus it is built around
AgreesWithCalcEcc ==
    /\ CalcEccIs(x, y, ret.val)
    /\ CalcEccIs(y, x, ret.val)
    /\ F64Eq(EccOfApsides(x, y), ret.val)
    /\ \A f \in Foci :
           /\ from_periapsis_apoapsis(x, y, f).tag = "Ok"
           /\ F64Eq(eccentricity(from_periapsis_apoapsis(x, y, f).val), ret.val)

EccentricityOfApsides ==
    /\ BuiltFromApsides
    /\ ret.fn = "Ellipse::eccentricity"
    /\ ret.tag = "Ok"

\* C28 (as stated): for all 0 < r_p <= r_a,
\* from_periapsis_apoapsis(r_p, r_a, f).eccentricity() equals calc_ecc(r_p, r_a)
\* and calc_ecc(r_a, r_p), both (r_a - r_p) / (r_a + r_p), whatever f is.
C28_EccentricityAsStated ==
    (IsPositive(x) /\ IsPositive(y) /\ F64Le(x, y) /\ EccentricityOfApsides) =>
        AgreesWithCalcEcc

\* 2^-960 <= r_p <= r_a <= 2^1000
ApsidesNormal ==
    /\ F64Ge(x, F64Pow2(-960))
    /\ F64Le(x, y)
    /\ F64Le(y, F64Pow2(1000))

\* C28 (amended): for all 2^-960 <= r_p <= r_a <= 2^1000,
\* from_periapsis_apoapsis(r_p, r_a, f).eccentricity() is the same f64 as
\* calc_ecc(r_p, r_a), calc_ecc(r_a, r_p) and (r_a - r_p) / (r_a + r_p),
\* whatever f is.
C28_EccentricityOfNormalApsides ==
    (ApsidesNormal /\ EccentricityOfApsides) => AgreesWithCalcEcc

\* eccentricity() was called on the ellipse built from two distinct apsides in
\* that range, and returned what calc_ecc returns for them
C28_EccentricityAgrees ==
    /\ ApsidesNormal
    /\ F64Lt(x, y)
    /\ EccentricityOfApsides
    /\ F64Gt(ret.val, F64Zero)
    /\ F64Lt(ret.val, F64One)
    /\ AgreesWithCalcEcc

(***************************************************************************)
(* C29: specific strength against characteristic velocity                  *)
(***************************************************************************)
\* the material passes the validation of characteristic_velocity
Validates(m) == characteristic_velocity_for_material(m).tag = "Ok"

\* characteristic_velocity_for_material(mat) returned just what
\* characteristic_velocity returns for the strength and the density of mat
ForMaterialForwards ==
    ret = Returned("characteristic_velocity_for_material",
                   characteristic_velocity(mat.tensile_strength, mat.density))

\* b validates and has a lower specific strength than mat
Weaker(b) ==
    /\ Validates(b)
    /\ F64Gt(specific_strength(mat), specific_strength(b))

ForMaterialReturned ==
    ret.fn = "characteristic_velocity_for_material" /\ ret.tag = "Ok"

ClearlyWeaker(b) ==
    /\ Weaker(b)
    /\ F64Ge(specific_strength(b), F64Pow2(-1000))
    /\ ~Near12(specific_strength(mat), specific_strength(b))

IsNegative(a) == IsFinite(a) /\ ~IsZero(a) /\ a.sgn = 1

\* Eccentricity::new(x) was called with x > 1 and succeeded with x
HyperbolicAccepted ==
    (ret.fn = "Eccentricity::new" /\ F64Gt(x, F64One)) =>
        (ret.tag = "Ok" /\ F64Eq(ret.val, x))

\* C30 (as stated): for every e > 1 and r_p > 0, Eccentricity::new(e)
\* succeeds, Ellipse::new accepts it, and semi_major_axis() and apoapsis()
\* return negative lengths.
C30_NegativeLengthsAsStated ==
    /\ HyperbolicAccepted
    /\ ( /\ ell # <<>>
         /\ F64Gt(eccentricity(ell[1]), F64One)
         /\ F64Gt(periapsis(ell[1]), F64Zero) ) =>
            /\ F64Lt(semi_major_axis(ell[1]), F64Zero)
            /\ F64Lt(apoapsis(ell[1]), F64Zero)

\* 1 < e <= 2^60
IsHyperbolicInRange(self) ==
    /\ F64Gt(eccentricity(self), F64One)
    /\ F64Le(eccentricity(self), F64Pow2(60))

\* C30 (amended): for every e > 1 Eccentricity::new(e) succeeds and
\* Ellipse::new accepts it; when e <= 2^60 and r_p is between 2^-1000 and
\* 2^900, semi_major_axis() and apoapsis() return finite negative lengths.
C30_NegativeLengthsInRange ==
    /\ HyperbolicAccepted
    /\ (ell # <<>> /\ IsHyperbolicInRange(ell[1]) /\ PeriapsisInRange(ell[1])) =>
            /\ IsNegative(semi_major_axis(ell[1]))
            /\ IsNegative(apoapsis(ell[1]))

\* apoapsis() was called on an ellipse that Ellipse::new built with an
\* eccentricity above 1, and returned a negative length
C30_NegativeApoapsisReturned ==
    /\ ell # <<>>
    /\ ell[1] = Ellipse_new(x, foc, y)
    /\ IsHyperbolicInRange(ell[1])
    /\ PeriapsisInRange(ell[1])
    /\ ret.fn = "Ellipse::apoapsis"
    /\ ret.tag = "Ok"
    /\ IsNegative(ret.val)

=============================================================================
